---- MODULE Spec2Model ----
\* A model of the game server of nolanholden/tide: the world state owned by
\* GameController (src/src/game_control.rs), the inbound mpsc queue, the
\* connection handlers of GameServer (src/src/server.rs) that feed it, and the
\* controller loop loop_until_cancelled.
\*
\* Geometry is exact integer arithmetic in half world units (1 = 0.5 world
\* units, so the enemy box half extent is 1) with axis-aligned directions;
\* time is in milliseconds, the clock advancing in steps of 250 ms, so that a
\* projectile of speed 2.0 units/s moves a whole number of half units.
EXTENDS Integers, Sequences, FiniteSets, TLC

\* ---------------------------------------------------------------- bounds
NumIds == 2
MaxEnemies == 2
MaxProjectiles == 2
MaxClock == 2
MaxSysClock == 1
MaxCalls == 4
HistLen == 3
RayReach == 32
NumConns == 2
MaxMsgs == 1
MaxBudget == 2
IdBits == 3
NumThreads == 2
MaxAllocs == 9
MaxEnvLen == 2
MaxDiags == 1
MaxBroadcasts == 2
MaxWireCalls == 3
MaxRayAttacks == 1
MaxTimers == 3

\* ------------------------------------------------------------ option type
None == <<>>
Some(x) == <<x>>
IsSome(o) == Len(o) = 1
unwrap(o) == o[1]

\* ------------------------------------------------------------- vectors
Vec2(x, y) == <<x, y>>
Sgn(n) == IF n > 0 THEN 1 ELSE IF n < 0 THEN -1 ELSE 0
Abs(n) == IF n < 0 THEN -n ELSE n
Max2(a, b) == IF a >= b THEN a ELSE b
Min2(a, b) == IF a <= b THEN a ELSE b
\* nalgebra's normalize, for an axis-aligned vector: the unit vector of its sign
normalize(v) == <<Sgn(v[1]), Sgn(v[2])>>
scale(v, s) == <<v[1] * s, v[2] * s>>
VecAdd(a, b) == <<a[1] + b[1], a[2] + b[2]>>

PositionStamped(xy, t) == [xy |-> xy, time_ms |-> t]

\* ------------------------------------------------- static projectile table
\* speed is in half units per second (2.0 world units/s = 4)
HitScan0 == 0
Projectile0 == 1
PROJECTILE_INFOS ==
    << [speed |-> None, damage |-> 1, num_penetrations |-> Some(1)],
       [speed |-> Some(4), damage |-> 10, num_penetrations |-> Some(1)] >>
lookup_projectile_info(projectile_type) == PROJECTILE_INFOS[projectile_type + 1]

\* ------------------------------------------------------------ hit detection
\* The enemy's box: ncollide2d Cuboid of half extents (0.5, 0.5) at the enemy
HalfExtent == 1
Infinity == 1000000000
\* One slab of the ray/AABB test: the interval of ray parameters t for which
\* origin + t * dir lies within [centre - HalfExtent, centre + HalfExtent]
SlabLo(o, d, c) ==
    IF d = 0 THEN (IF Abs(o - c) <= HalfExtent THEN 0 ELSE Infinity)
    ELSE IF d > 0 THEN c - HalfExtent - o
    ELSE o - c - HalfExtent
SlabHi(o, d, c) ==
    IF d = 0 THEN (IF Abs(o - c) <= HalfExtent THEN Infinity ELSE -1)
    ELSE IF d > 0 THEN c + HalfExtent - o
    ELSE o - c + HalfExtent
projectile_ray_scans_enemy_whole_line(proj, enemy) ==
    LET dir == normalize(proj.vel)
        o == proj.origin.xy
        c == enemy.position.xy
        tmin == Max2(SlabLo(o[1], dir[1], c[1]), SlabLo(o[2], dir[2], c[2]))
        tmax == Min2(SlabHi(o[1], dir[1], c[1]), SlabHi(o[2], dir[2], c[2]))
    IN  tmin <= tmax

\* AABB::intersects_ray with max_toi = f32::MAX: closed box, t >= 0
projectile_ray_scans_enemy(proj, enemy) ==
    LET dir == normalize(proj.vel)
        o == proj.origin.xy
        c == enemy.position.xy
        tmin == Max2(0, Max2(SlabLo(o[1], dir[1], c[1]), SlabLo(o[2], dir[2], c[2])))
        tmax == Min2(SlabHi(o[1], dir[1], c[1]), SlabHi(o[2], dir[2], c[2]))
    IN  tmin <= tmax

\* main.rs keeps an earlier copy of the controller (GameUpdater) whose ray
\* test takes the map's max_dimension as max_toi. The ray's direction has
\* length 1 there, so the time of impact is a distance: the entry parameter
\* tmin along the sign vector dir is the distance tmin * |dir|, compared in
\* squares. max_dimension: 100 world units = 200 half units.
MapMaxDimension == 200
bullet_ray_scans_enemy(bullet, enemy, max_time_of_impact) ==
    LET dir == normalize(bullet.vel)
        o == bullet.origin.xy
        c == enemy.position.xy
        tmin == Max2(0, Max2(SlabLo(o[1], dir[1], c[1]), SlabLo(o[2], dir[2], c[2])))
        tmax == Min2(SlabHi(o[1], dir[1], c[1]), SlabHi(o[2], dir[2], c[2]))
    IN  /\ tmin <= tmax
        /\ tmin * tmin * (dir[1] * dir[1] + dir[2] * dir[2])
              <= max_time_of_impact * max_time_of_impact

\* ------------------------------------------------------------ world state
\* api::GameState: players is the HashMap, enemies and projectiles the Vecs
World(ps, es, prs) == [players |-> ps, enemies |-> es, projectiles |-> prs]
Player(position, connection_status) ==
    [position |-> position, connection_status |-> connection_status]
Enemy(enemy_id, xy, health, status) ==
    [enemy_id |-> enemy_id, position |-> PositionStamped(xy, 0),
     health |-> health, status |-> status]
ProjectileSnaphot(projectile_type, origin, vel) ==
    [projectile_type |-> projectile_type, origin |-> origin, vel |-> vel]

\* HashMap::insert and HashMap::remove
MapInsert(m, k, v) == [q \in DOMAIN m \cup {k} |-> IF q = k THEN v ELSE m[q]]
MapRemove(m, k) == [q \in DOMAIN m \ {k} |-> m[q]]
EmptyMap == [q \in {} |-> 0]

\* The result of a call: the world it leaves and how it returned
\* ("Ok", "Err", or "Panic" for an unwrap of None or an arithmetic overflow)
Ret(w, res) == [w |-> w, res |-> res]

\* ------------------------------------------------- GameController dispatch
try_connect_player_overwrites(w, id) ==
    Ret([w EXCEPT !.players = MapInsert(w.players, id,
            Player(PositionStamped(Vec2(0, 0), 0), "Connected"))],
        IF id \in DOMAIN w.players /\ w.players[id].connection_status # "Disconnected"
        THEN "Err" ELSE "Ok")

try_connect_player_no_reconnect(w, id) ==
    IF id \in DOMAIN w.players
    THEN Ret(w, "Err")
    ELSE Ret([w EXCEPT !.players = MapInsert(w.players, id,
                Player(PositionStamped(Vec2(0, 0), 0), "Connected"))], "Ok")

try_connect_player_resets_others(w, id) ==
    IF id \in DOMAIN w.players
    THEN IF w.players[id].connection_status = "Disconnected"
         THEN Ret([w EXCEPT !.players[id].connection_status = "Connected"], "Ok")
         ELSE Ret(w, "Err")
    ELSE Ret([w EXCEPT !.players =
                [q \in DOMAIN w.players \cup {id} |->
                    Player(PositionStamped(Vec2(0, 0), 0),
                           IF q = id THEN "Connected"
                           ELSE w.players[q].connection_status)]], "Ok")

try_connect_player(w, id) ==
    IF id \in DOMAIN w.players
    THEN IF w.players[id].connection_status = "Disconnected"
         THEN Ret([w EXCEPT !.players[id].connection_status = "Connected"], "Ok")
         ELSE Ret(w, "Err")
    ELSE Ret([w EXCEPT !.players = MapInsert(w.players, id,
                Player(PositionStamped(Vec2(0, 0), 0), "Connected"))], "Ok")

disconnect_player_touches_all(w, feature, id) ==
    IF feature
    THEN IF id \in DOMAIN w.players
         THEN Ret([w EXCEPT !.players =
                    [q \in DOMAIN w.players |->
                        [w.players[q] EXCEPT !.connection_status = "Disconnected"]]], "Ok")
         ELSE Ret(w, "Panic")
    ELSE Ret([w EXCEPT !.players = EmptyMap], "Ok")

\* feature = cfg!(feature = "ip-address-player-ids")
disconnect_player(w, feature, id) ==
    IF feature
    THEN IF id \in DOMAIN w.players
         THEN Ret([w EXCEPT !.players[id].connection_status = "Disconnected"], "Ok")
         ELSE Ret(w, "Panic")
    ELSE Ret([w EXCEPT !.players = MapRemove(w.players, id)], "Ok")

hitscan_damage_enemy_resets_status(enemy, damage) ==
    LET health == enemy.health - damage
    IN  [enemy EXCEPT !.health = health,
                      !.status = IF health = 0 THEN "Dead" ELSE "Alive"]

hitscan_damage_enemy_strict(enemy, damage) ==
    LET health == enemy.health - damage
    IN  [enemy EXCEPT !.health = health,
                      !.status = IF health < 0 THEN "Dead" ELSE enemy.status]

\* One enemy of the hitscan loop: damage, then the death check
hitscan_damage_enemy(enemy, damage) ==
    LET health == enemy.health - damage
    IN  [enemy EXCEPT !.health = health,
                      !.status = IF health <= 0 THEN "Dead" ELSE enemy.status]

\* The enemies (by index) that partition() puts in in_projectile_path
in_projectile_path(w, projectile) ==
    { i \in 1..Len(w.enemies) : projectile_ray_scans_enemy(projectile, w.enemies[i]) }

handle_projectile_created_shares_budget(w, id, projectile) ==
    LET projectile_info == lookup_projectile_info(projectile.projectile_type)
        n == Len(w.projectiles)
    IN  IF IsSome(projectile_info.speed)
        THEN Ret([w EXCEPT !.projectiles = Append(w.projectiles,
                    [player_id |-> id,
                     projectile |-> ProjectileSnaphot(projectile.projectile_type,
                        projectile.origin,
                        scale(normalize(projectile.vel), unwrap(projectile_info.speed))),
                     current_info |-> IF n > 0 THEN w.projectiles[n].current_info
                                      ELSE projectile_info])], "Ok")
        ELSE Ret([w EXCEPT !.enemies = [i \in 1..Len(w.enemies) |->
                    IF i \in in_projectile_path(w, projectile)
                    THEN hitscan_damage_enemy(w.enemies[i], projectile_info.damage)
                    ELSE w.enemies[i]]], "Ok")

handle_projectile_created(w, id, projectile) ==
    LET projectile_info == lookup_projectile_info(projectile.projectile_type)
    IN  IF IsSome(projectile_info.speed)
        THEN Ret([w EXCEPT !.projectiles = Append(w.projectiles,
                    [player_id |-> id,
                     projectile |-> ProjectileSnaphot(projectile.projectile_type,
                        projectile.origin,
                        scale(normalize(projectile.vel), unwrap(projectile_info.speed))),
                     current_info |-> projectile_info])], "Ok")
        ELSE Ret([w EXCEPT !.enemies = [i \in 1..Len(w.enemies) |->
                    IF i \in in_projectile_path(w, projectile)
                    THEN hitscan_damage_enemy(w.enemies[i], projectile_info.damage)
                    ELSE w.enemies[i]]], "Ok")

handle_player_update_drops_stale(w, feature, id, update) ==
    CASE update.type = "PlayerConnected" -> try_connect_player(w, id)
      [] update.type = "PlayerDisconnected" -> disconnect_player(w, feature, id)
      [] update.type = "PositionUpdate" ->
            IF id \in DOMAIN w.players
            THEN IF update.position.time_ms > w.players[id].position.time_ms
                 THEN Ret([w EXCEPT !.players[id].position = update.position], "Ok")
                 ELSE Ret(w, "Ok")
            ELSE Ret(w, "Panic")
      [] update.type = "ProjectileCreated" ->
            handle_projectile_created(w, id, update.projectile)

handle_player_update(w, feature, id, update) ==
    CASE update.type = "PlayerConnected" -> try_connect_player(w, id)
      [] update.type = "PlayerDisconnected" -> disconnect_player(w, feature, id)
      [] update.type = "PositionUpdate" ->
            IF id \in DOMAIN w.players
            THEN Ret([w EXCEPT !.players[id].position = update.position], "Ok")
            ELSE Ret(w, "Panic")
      [] update.type = "ProjectileCreated" ->
            handle_projectile_created(w, id, update.projectile)

\* ------------------------------------------------- progress_projectiles
budget_allows_hit_always(budget) == TRUE
budget_allows_hit_at_zero(budget) == unwrap(budget) >= 0

\* *num_penetrations.as_ref().unwrap() > 0, for a budget that is set
budget_allows_hit(budget) == unwrap(budget) > 0

\* The filter_map closure over remaining_alive_enemies for one projectile:
\* es the enemies, proj the projectile (its budget is decremented on the way),
\* todo the enemy indexes still to visit, kept those that stay in the list.
RECURSIVE filter_map_enemies(_, _, _, _)
filter_map_enemies(es, proj, todo, kept) ==
    IF todo = <<>>
    THEN [enemies |-> es, proj |-> proj, kept |-> kept, res |-> "Ok"]
    ELSE LET i == Head(todo)
             enemy == es[i]
             budget == proj.current_info.num_penetrations
         IN  IF ~IsSome(budget)
             THEN [enemies |-> es, proj |-> proj, kept |-> kept, res |-> "Panic"]
             ELSE LET hit == budget_allows_hit(budget)
                             /\ projectile_ray_scans_enemy(proj.projectile, enemy)
                      health == enemy.health - proj.current_info.damage
                      enemy2 == IF hit
                                THEN [enemy EXCEPT !.health = health,
                                        !.status = IF health < 0 THEN "Dead" ELSE @]
                                ELSE enemy
                      proj2 == IF hit
                               THEN [proj EXCEPT !.current_info.num_penetrations =
                                        Some(unwrap(budget) - 1)]
                               ELSE proj
                  IN  IF enemy2.status \notin {"Alive", "Dead"}
                      THEN [enemies |-> es, proj |-> proj, kept |-> kept, res |-> "Panic"]
                      ELSE filter_map_enemies([es EXCEPT ![i] = enemy2], proj2, Tail(todo),
                              IF enemy2.status = "Alive" THEN Append(kept, i) ELSE kept)

\* now_ms - origin.time_ms in u64: with overflow checks the subtraction panics,
\* without them it wraps to about 2^64 ms, and the projectile is carried far
\* beyond every enemy (the model moves it 1000000 s instead of 1.8e16 s)
u64_sub_underflows(a, b) == a < b
pos_update_vector(vel, now_ms, time_ms) ==
    IF u64_sub_underflows(now_ms, time_ms)
    THEN scale(vel, 1000000)
    ELSE <<(vel[1] * (now_ms - time_ms)) \div 1000, (vel[2] * (now_ms - time_ms)) \div 1000>>

\* One iteration of the loop over state.projectiles: projectile k, with rem the
\* remaining_alive_enemies it is handed; overflow_checks is the build's setting
progress_one(w, k, rem, now_ms, overflow_checks) ==
    LET player_proj == w.projectiles[k]
        time_ms == player_proj.projectile.origin.time_ms
    IN  IF u64_sub_underflows(now_ms, time_ms) /\ overflow_checks
        THEN [w |-> w, rem |-> rem, res |-> "Panic"]
        ELSE LET f == filter_map_enemies(w.enemies, player_proj, rem, <<>>)
                 moved == [f.proj EXCEPT !.projectile.origin =
                            PositionStamped(
                                VecAdd(player_proj.projectile.origin.xy,
                                       pos_update_vector(player_proj.projectile.vel,
                                                         now_ms, time_ms)),
                                now_ms)]
             IN  IF f.res # "Ok"
                 THEN [w |-> w, rem |-> rem, res |-> f.res]
                 ELSE [w |-> [w EXCEPT !.enemies = f.enemies, !.projectiles[k] = moved],
                       rem |-> f.kept, res |-> "Ok"]

\* remaining_alive_enemies as first collected: every enemy of the list
all_enemies(w) == [i \in 1..Len(w.enemies) |-> i]

RECURSIVE progress_from(_, _, _, _, _)
progress_from(w, k, rem, now_ms, overflow_checks) ==
    IF k > Len(w.projectiles)
    THEN Ret(w, "Ok")
    ELSE LET r == progress_one(w, k, rem, now_ms, overflow_checks)
         IN  IF r.res # "Ok"
             THEN Ret(w, r.res)
             ELSE progress_from(r.w, k + 1, r.rem, now_ms, overflow_checks)

progress_projectiles(w, now_ms, overflow_checks) ==
    progress_from(w, 1, all_enemies(w), now_ms, overflow_checks)

\* utils::unix_time().as_millis() for the model's clock
unix_time_ms(c) == c * 250

\* ---------------------------------------------------------------- state
VARIABLES
    players, enemies, projectiles,  \* GameController.state
    feature,        \* cfg!(feature = "ip-address-player-ids"), fixed by the build
    clock,          \* the system clock, in steps of 250 ms
    last,           \* the last call of handle_player_update or progress_projectiles
    ncalls,         \* calls made so far by a driver of the public methods
    pre, hist,      \* the world before the driver's last call, its last calls
    pc,             \* where the controller thread is in loop_until_cancelled
    tick,           \* progress_projectiles' loop: index, remaining enemies, now
    scan,           \* the hitscan loop: enemies still to damage, the intent
    cancel_flag,    \* make_atomic_canceller's AtomicBool
    queue,          \* the mpsc channel of ChannelUpdate
    conns,          \* the GameServer handler of each connection
    next_id,        \* PlayerIdGenerator.next_id
    server_down,    \* the websocket event loop has panicked
    enqueued,       \* every intent sent on the channel, in order (by tag)
    applied,        \* every intent handle_player_update returned Ok for, in order
    bcast,          \* the last broadcast emitted, if any
    committed,      \* the world as of the last completed call
    senders,        \* the channel's Senders: alive, and what their drop left
    cancelled_at,   \* how many intents had been applied when cancel() was called
    since_bcast,    \* what the loop has completed since its last broadcast
    idgen,          \* a SerialIdGenerator, its Mutex and the threads calling it
    diag,           \* what on_message answered to undecodable text, per connection
    config,         \* the process environment and config.rs's static durations
    wire,           \* the strings broadcast_state has serialised, and the map's order
    ping            \* each connection's PING timeouts: the handler's and the event loop's

apiVars == <<ncalls, pre, hist>>
sysVars == <<pc, tick, scan, cancel_flag, queue, conns, next_id, server_down,
             enqueued, applied, bcast, committed, senders, cancelled_at,
             since_bcast>>
sideVars == <<idgen, diag, config, wire, ping>>
vars == <<players, enemies, projectiles, feature, clock, last, apiVars, sysVars,
          sideVars>>

TheWorld == World(players, enemies, projectiles)
SetWorld(w) ==
    /\ players' = w.players
    /\ enemies' = w.enemies
    /\ projectiles' = w.projectiles

NoCall == [update |-> [type |-> "None"], id |-> 0, res |-> "Ok"]
Call(update, id, res) == [update |-> update, id |-> id, res |-> res]

\* ---------------------------------------------------------------- inputs
Ids == 1..NumIds
PlayerPositions == { PositionStamped(Vec2(6, 8), 250) }
EnemyHealths == {1, 10}
EnemyPositions == << Vec2(0, 0), Vec2(4, 0) >>
EnemyConfigs ==
    UNION { [1..n -> EnemyHealths] : n \in 0..MaxEnemies }
SpawnEnemies(hs) ==
    [i \in 1..Len(hs) |-> Enemy(i, EnemyPositions[((i - 1) % 2) + 1], hs[i], "Alive")]
AttackOrigins == { Vec2(-20, 0), Vec2(2, 0) }
Dirs == { Vec2(1, 0), Vec2(-1, 0) }
ClientTimesMs == { 0, unix_time_ms(MaxClock + 1) }
PlayerUpdates ==
    { [type |-> "PlayerConnected"], [type |-> "PlayerDisconnected"] }
    \cup { [type |-> "PositionUpdate", position |-> p] : p \in PlayerPositions }
AttackUpdates ==
    { [type |-> "ProjectileCreated",
       projectile |-> ProjectileSnaphot(ty, PositionStamped(o, t), d)] :
        ty \in {HitScan0, Projectile0}, o \in AttackOrigins, t \in ClientTimesMs, d \in Dirs }

NothingSince == [advances |-> 0, intents |-> 0]
NoTick == [k |-> 0, rem |-> <<>>, now_ms |-> 0]
NoScan == [path |-> <<>>, intent |-> <<>>]
NewConn == [st |-> "new", player_id |-> None, sent |-> 0, n |-> 0]
Conns == 1..NumConns

\* ------------------------------------------------ utils.rs: serial ids
\* api::EntityId is an unsigned integer of 32 bits ("u32 with first two
\* bits"), here of IdBits bits; the two top bits are the category's
IdSpace == 2 ^ IdBits
TagShift == IdBits - 2
SerialSpace == 2 ^ TagShift

RECURSIVE BitAnd(_, _)
BitAnd(a, b) ==
    IF a = 0 \/ b = 0 THEN 0
    ELSE (a % 2) * (b % 2) + 2 * BitAnd(a \div 2, b \div 2)

RECURSIVE BitOr(_, _)
BitOr(a, b) ==
    IF a = 0 THEN b
    ELSE IF b = 0 THEN a
    ELSE (IF a % 2 = 1 \/ b % 2 = 1 THEN 1 ELSE 0) + 2 * BitOr(a \div 2, b \div 2)

Categories == { "Player", "Enemy", "Projectile" }

\* const MASK of the three impls: 0b00, 0b01 and 0b10 << (32 - 2)
MASK(cat) ==
    CASE cat = "Player" -> 0 * (2 ^ TagShift)
      [] cat = "Enemy" -> 1 * (2 ^ TagShift)
      [] cat = "Projectile" -> 2 * (2 ^ TagShift)

\* The two top bits of an id
TagBits(id) == id \div (2 ^ TagShift)

\* if (id & Self::MASK) != 0 { panic!(..) }
id_overflows(cat, id) == BitAnd(id, MASK(cat)) # 0

\* return id | Self::MASK
tagged_id(cat, id) == BitOr(id, MASK(cat))

Threads == 1..NumThreads
IdleThread == [pc |-> "idle", id |-> 0]

\* Self::new(first_id), no thread having called it, in a build with or
\* without overflow-checks
NewIdGenerator(cat, first_id, overflow_checks) ==
    [cat |-> cat, next_id |-> first_id, overflow_checks |-> overflow_checks,
     lock |-> 0, poisoned |-> FALSE,
     thr |-> [t \in Threads |-> IdleThread],
     calls |-> 0, issued |-> {}, twice |-> FALSE, returned |-> None]

\* ------------------------------------- server.rs: undecodable messages
NoDiag == [c \in Conns |-> [sent |-> 0, result |-> "None"]]

\* ---------------------------------------- config.rs: the environment
\* A variable of the environment is unset, set to something that is not
\* Unicode, or set to a string
EnvChars == { "0", "5", "+", "x" }
EnvStrings == UNION { [1..n -> EnvChars] : n \in 0..MaxEnvLen }
EnvValues ==
    { [kind |-> "Unset"], [kind |-> "NotUnicode"] }
    \cup { [kind |-> "Text", value |-> v] : v \in EnvStrings }

\* env::var: Err(NotPresent) or Err(NotUnicode), else Ok(value)
env_var(e) == IF e.kind = "Text" THEN Some(e.value) ELSE None

Digit(ch) == CASE ch = "0" -> 0 [] ch = "5" -> 5 [] OTHER -> -1
RECURSIVE from_digits(_, _)
from_digits(str, acc) ==
    IF str = <<>> THEN Some(acc)
    ELSE IF Digit(Head(str)) < 0 THEN None
    ELSE from_digits(Tail(str), 10 * acc + Digit(Head(str)))
\* str::parse::<u64>: an optional "+", then one or more decimal digits
parse_u64(str) ==
    LET digits == IF str # <<>> /\ Head(str) = "+" THEN Tail(str) ELSE str
    IN  IF digits = <<>> THEN None ELSE from_digits(digits, 0)

DefaultAwaitClientMsgTimeoutMs == 50
DefaultWebsocketsPingpongIntervalMs == 4500

\* The statics as define_env_var! declares them, before init_env_vars
NewConfig(env) ==
    [env |-> env, pc |-> "start",
     AWAIT_CLIENT_MSG_TIMEOUT_MS |-> DefaultAwaitClientMsgTimeoutMs,
     WEBSOCKETS_PINGPONG_INTERVAL_MS |-> DefaultWebsocketsPingpongIntervalMs]

\* init_env_var_impl! and init_env_var!: the static after the macro's match,
\* None standing for the panic of value.parse().unwrap()
init_env_var(e, current) ==
    LET value == env_var(e)
    IN  IF IsSome(value)
        THEN parse_u64(unwrap(value))
        ELSE Some(current)

NoEnv == [AWAIT_CLIENT_MSG_TIMEOUT_MS |-> [kind |-> "Unset"],
          WEBSOCKETS_PINGPONG_INTERVAL_MS |-> [kind |-> "Unset"]]

\* ------------------------------------------ serde_json of api::GameState
\* The keys of the players map in the order HashMap::iter yields them: the
\* order of the map's table, here the keys' rank in order
RECURSIVE map_iter(_, _)
map_iter(m, order) ==
    IF order = <<>> THEN <<>>
    ELSE IF Head(order) \in DOMAIN m
         THEN <<Head(order)>> \o map_iter(m, Tail(order))
         ELSE map_iter(m, Tail(order))

\* #[derive(Serialize)] of Player, whose authr_status is #[serde(skip)],
\* and of PlayerProjectile
ser_player(id, p) ==
    <<id, [position |-> p.position, connectionStatus |-> p.connection_status]>>
ser_projectile(p) == [playerId |-> p.player_id, projectile |-> p.projectile]

\* serde_json::ser::to_string(&self.state)
to_string(w, order) ==
    LET keys == map_iter(w.players, order)
    IN  [players |-> [k \in 1..Len(keys) |-> ser_player(keys[k], w.players[keys[k]])],
         enemies |-> w.enemies,
         projectiles |-> [k \in 1..Len(w.projectiles) |-> ser_projectile(w.projectiles[k])]]

Orders == { o \in [1..NumIds -> 1..NumIds] : \A i, j \in 1..NumIds : o[i] = o[j] => i = j }
NoWire == [order |-> [i \in 1..NumIds |-> i], sent |-> <<>>]

\* ------------------------------------------------ server.rs: PING timeouts
\* A connection's handler field ping_timeout with what the event loop holds
\* for it: the timeouts requested by out.timeout and not yet set (requested),
\* the timeouts set and not yet expired or cancelled (pending), how many were
\* set (made: timeout t is the t-th), and those out.cancel was called for.
\* op and stored_before record the last handler call and the ping_timeout it
\* found.
NoPing ==
    [c \in Conns |->
        [st |-> "new", ping_timeout |-> None, requested |-> 0, pending |-> {}, made |-> 0,
         cancelled |-> {}, op |-> "new", stored_before |-> None]]

\* self.out.timeout(ms, PING) and self.out.cancel(t)
out_timeout(p) == [p EXCEPT !.requested = @ + 1]
out_cancel(p, t) == [p EXCEPT !.pending = @ \ {t}, !.cancelled = @ \cup {t}]

\* on_open's "setup time sync timeouts": send_ping()? then out.timeout(..)?
open_ping(p, ok) ==
    IF ok
    THEN [out_timeout(p) EXCEPT !.st = "open", !.op = "on_open",
                                !.stored_before = p.ping_timeout]
    ELSE [p EXCEPT !.st = "failed", !.op = "on_open", !.stored_before = p.ping_timeout]

\* on_new_timeout(PING, timeout)
on_new_timeout(p, timeout) ==
    LET q == IF IsSome(p.ping_timeout) THEN out_cancel(p, unwrap(p.ping_timeout)) ELSE p
    IN  [q EXCEPT !.ping_timeout = Some(timeout), !.op = "on_new_timeout",
                  !.stored_before = p.ping_timeout]

\* on_timeout(PING): send_ping()? returns before the take when it fails
on_timeout(p, ok) ==
    IF ok
    THEN [out_timeout(p) EXCEPT !.ping_timeout = None, !.op = "on_timeout",
                                !.stored_before = p.ping_timeout]
    ELSE [p EXCEPT !.op = "on_timeout", !.stored_before = p.ping_timeout]

close_ping_keeps_timer(p) ==
    [p EXCEPT !.ping_timeout = None, !.st = "closed", !.op = "on_close",
              !.stored_before = p.ping_timeout]

\* on_close's "Clean up time sync timeout"
close_ping(p) ==
    LET q == IF IsSome(p.ping_timeout) THEN out_cancel(p, unwrap(p.ping_timeout)) ELSE p
    IN  [q EXCEPT !.ping_timeout = None, !.st = "closed", !.op = "on_close",
                  !.stored_before = p.ping_timeout]

\* The state GameController::new, mpsc::channel and GameServer::new leave
InitSys ==
    /\ pc = "loop"
    /\ tick = NoTick
    /\ scan = NoScan
    /\ cancel_flag = FALSE
    /\ queue = <<>>
    /\ conns = [c \in Conns |-> NewConn]
    /\ next_id = 1
    /\ server_down = FALSE
    /\ enqueued = <<>>
    /\ applied = <<>>
    /\ bcast = None
    /\ committed = World(players, enemies, projectiles)
    /\ senders = [alive |-> TRUE, buffered |-> 0, disconnected |-> FALSE]
    /\ cancelled_at = None
    /\ since_bcast = NothingSince

\* No id generator in use, no undecodable message, an empty environment
\* read by config::init(), nothing serialised
InitSide ==
    /\ idgen = NewIdGenerator("Player", 0, FALSE)
    /\ diag = NoDiag
    /\ config = [NewConfig(NoEnv) EXCEPT !.pc = "done"]
    /\ wire = NoWire
    /\ ping = NoPing

\* ------------------------------------------- the public methods, driven
\* handle_player_update called with a connection update for any id
ApiPlayerUpdate(id, update) ==
    /\ last.res # "Panic"
    /\ LET r == handle_player_update(TheWorld, feature, id, update)
       IN  /\ SetWorld(r.w)
           /\ pre' = TheWorld
           /\ last' = Call(update, id, r.res)
           /\ hist' = LET h == Append(hist, [type |-> update.type, id |-> id, res |-> r.res,
                                            known |-> id \in DOMAIN players])
                      IN  IF Len(h) > HistLen THEN Tail(h) ELSE h
    /\ UNCHANGED <<feature, clock, ncalls, sysVars, sideVars>>

InitPlayers ==
    /\ players = EmptyMap
    /\ enemies = <<>>
    /\ projectiles = <<>>
    /\ feature \in BOOLEAN
    /\ clock = 0
    /\ ncalls = 0
    /\ pre = World(EmptyMap, <<>>, <<>>)
    /\ last = NoCall
    /\ hist = <<>>
    /\ InitSys
    /\ InitSide

NextPlayers == \E id \in Ids, update \in PlayerUpdates : ApiPlayerUpdate(id, update)

SpecPlayers == InitPlayers /\ [][NextPlayers]_vars

\* C1: whenever the last call was a Connect for an id that was present and
\* Connected before it, the call returned an error and the world (that
\* player's record and every other record) is as it was before the call.
C1_DuplicateConnectRejected ==
    ( /\ last.update.type = "PlayerConnected"
      /\ last.id \in DOMAIN pre.players
      /\ pre.players[last.id].connection_status = "Connected" )
    => ( /\ last.res = "Err"
         /\ players = pre.players
         /\ TheWorld = pre )

C1_Witness ==
    /\ last.update.type = "PlayerConnected"
    /\ last.id \in DOMAIN pre.players
    /\ pre.players[last.id].connection_status = "Connected"
    /\ pre.players[last.id].position # PositionStamped(Vec2(0, 0), 0)
    /\ Cardinality(DOMAIN pre.players) = 2
    /\ last.res = "Err"

\* C3 (as claimed): whenever the last call was a Disconnect for an id absent
\* from the player map, the call returned an error value (neither a panic nor
\* success) and the world is unchanged.
C3_UnknownDisconnectIsError ==
    ( /\ last.update.type = "PlayerDisconnected"
      /\ last.id \notin DOMAIN pre.players )
    => ( /\ last.res = "Err"
         /\ TheWorld = pre )

\* The last three calls, oldest first
LastThree == SubSeq(hist, Len(hist) - 2, Len(hist))
ConnectDisconnectConnect ==
    /\ Len(hist) >= 3
    /\ LastThree[1].type = "PlayerConnected"
    /\ ~LastThree[1].known
    /\ LastThree[2].type = "PlayerDisconnected"
    /\ LastThree[3].type = "PlayerConnected"
    /\ LastThree[1].id = LastThree[2].id
    /\ LastThree[2].id = LastThree[3].id

\* C4: whenever the last three calls were Connect(p), Disconnect(p),
\* Connect(p) with p unknown before the first, all three returned Ok and the
\* player map holds p (one record, the map's key) with status Connected.
C4_ConnectDisconnectConnect ==
    ConnectDisconnectConnect
    => ( /\ \A k \in 1..3 : LastThree[k].res = "Ok"
         /\ LastThree[3].id \in DOMAIN players
         /\ Cardinality({ q \in DOMAIN players : q = LastThree[3].id }) = 1
         /\ players[LastThree[3].id].connection_status = "Connected" )

C4_Witness ==
    /\ ConnectDisconnectConnect
    /\ feature
    /\ last.res = "Ok"
    /\ players[last.id].connection_status = "Connected"

\* handle_player_update called with an attack
ApiProjectileCreated(id, update) ==
    /\ last.res # "Panic"
    /\ ncalls < MaxCalls
    /\ IsSome(lookup_projectile_info(update.projectile.projectile_type).speed)
        => Len(projectiles) < MaxProjectiles
    /\ LET r == handle_player_update(TheWorld, feature, id, update)
       IN  /\ SetWorld(r.w)
           /\ pre' = TheWorld
           /\ last' = Call(update, id, r.res)
    /\ ncalls' = ncalls + 1
    /\ UNCHANGED <<feature, clock, hist, sysVars, sideVars>>

\* progress_projectiles called at a time now_ms read from the clock
ApiProgressProjectiles(c, overflow_checks) ==
    /\ last.res # "Panic"
    /\ ncalls < MaxCalls
    /\ LET r == progress_projectiles(TheWorld, unix_time_ms(c), overflow_checks)
       IN  /\ SetWorld(r.w)
           /\ pre' = TheWorld
           /\ last' = Call([type |-> "progress_projectiles"], 0, r.res)
    /\ clock' = c
    /\ ncalls' = ncalls + 1
    /\ UNCHANGED <<feature, hist, sysVars, sideVars>>

\* The enemy list the world holds is an input of the combat methods:
\* GameController::new leaves it empty and no method of this revision spawns
\* an enemy ("TODO: spawn enemies"), so the methods are driven from worlds
\* of zero to MaxEnemies Alive enemies standing on the x axis.
InitCombat ==
    /\ players = EmptyMap
    /\ enemies \in { SpawnEnemies(hs) : hs \in EnemyConfigs }
    /\ projectiles = <<>>
    /\ feature = FALSE
    /\ clock = 0
    /\ ncalls = 0
    /\ pre = World(players, enemies, projectiles)
    /\ last = NoCall
    /\ hist = <<>>
    /\ InitSys
    /\ InitSide

NextCombat ==
    \/ \E update \in AttackUpdates : ApiProjectileCreated(1, update)
    \/ \E c \in clock..Min2(clock + 1, MaxClock), overflow_checks \in BOOLEAN :
            ApiProgressProjectiles(c, overflow_checks)

SpecCombat == InitCombat /\ [][NextCombat]_vars

\* The half-line from o in direction d meets the closed box of half extent
\* HalfExtent centred on c (stated independently of the slab test)
RayMeetsBox(o, d, c) ==
    \E t \in 0..RayReach :
        /\ Abs(o[1] + t * d[1] - c[1]) <= HalfExtent
        /\ Abs(o[2] + t * d[2] - c[2]) <= HalfExtent

LastIsHitscan ==
    /\ last.update.type = "ProjectileCreated"
    /\ ~IsSome(lookup_projectile_info(last.update.projectile.projectile_type).speed)

\* C9: after a call handling an AttackCreated whose type has speed = None, the
\* call returned Ok, every enemy on the attack's ray has lost exactly the
\* type's damage and is Dead iff its health is now <= 0, every other enemy is
\* unchanged, and the projectile list and the players are unchanged.
C9_HitscanResolvesInCall ==
    LastIsHitscan
    => LET p == last.update.projectile
           damage == lookup_projectile_info(p.projectile_type).damage
       IN  /\ last.res = "Ok"
           /\ projectiles = pre.projectiles
           /\ players = pre.players
           /\ Len(enemies) = Len(pre.enemies)
           /\ \A i \in 1..Len(pre.enemies) :
                IF RayMeetsBox(p.origin.xy, p.vel, pre.enemies[i].position.xy)
                THEN /\ enemies[i].health = pre.enemies[i].health - damage
                     /\ (enemies[i].status = "Dead") <=> (enemies[i].health <= 0)
                     /\ enemies[i].status \in {"Alive", "Dead"}
                     /\ enemies[i].position = pre.enemies[i].position
                     /\ enemies[i].enemy_id = pre.enemies[i].enemy_id
                ELSE enemies[i] = pre.enemies[i]

C9_Witness ==
    /\ LastIsHitscan
    /\ Len(enemies) = 2
    /\ pre.enemies[1].health = 1 /\ pre.enemies[1].status = "Alive"
    /\ enemies[1].health = 0 /\ enemies[1].status = "Dead"
    /\ enemies[2].health = 9 /\ enemies[2].status = "Alive"
    /\ Len(projectiles) = 1

\* C10 (as claimed): a call (a hitscan dispatch or a tick of
\* progress_projectiles) leaves every enemy that was Dead before it unchanged,
\* and a tick in which every enemy was already Dead spends no penetration
\* budget.
C10_DeadEnemiesUntouched ==
    /\ \A i \in 1..Len(pre.enemies) :
            pre.enemies[i].status = "Dead" => enemies[i] = pre.enemies[i]
    /\ ( /\ last.update.type = "progress_projectiles"
         /\ \A i \in 1..Len(pre.enemies) : pre.enemies[i].status = "Dead" )
        => \A k \in 1..Len(pre.projectiles) :
                projectiles[k].current_info = pre.projectiles[k].current_info

\* =====================================================================
\* The running system: connection handlers, the queue, the controller loop
\* =====================================================================
Terminal == {"stopped", "failed", "panicked"}
\* The Receiver lives in the GameController, which the controller thread
\* drops when loop_until_cancelled returns or unwinds
rx_alive == pc \notin Terminal

SysEnemyConfigs == { <<>>, <<1, 10>> }
SysUpdates ==
    { [type |-> "PositionUpdate", position |-> p] : p \in PlayerPositions }
    \cup { [type |-> "ProjectileCreated",
            projectile |-> ProjectileSnaphot(ty, PositionStamped(Vec2(-20, 0), 0), Vec2(1, 0))] :
            ty \in {HitScan0, Projectile0} }

ChannelUpdate(tag, id, update) == [tag |-> tag, id |-> id, update |-> update]

\* mpsc::Receiver: the message recv_timeout returns, and the queue it leaves
front_newest(q) == q[Len(q)]
front(q) == Head(q)
dequeue_two(q) == IF Len(q) >= 2 THEN Tail(Tail(q)) ELSE Tail(q)
dequeue(q) == Tail(q)

\* update_channel.send(ChannelUpdate {..}).unwrap() by connection c: the send
\* fails once the Receiver is dropped, and the unwrap then panics in the
\* websocket event loop, which runs every handler (the handlers' own fields
\* are then of no account and are left as they were)
SendIntent(c, id, update) ==
    IF rx_alive
    THEN LET tag == <<c, conns[c].n + 1>>
         IN  /\ queue' = Append(queue, ChannelUpdate(tag, id, update))
             /\ enqueued' = Append(enqueued, tag)
             /\ UNCHANGED server_down
    ELSE /\ server_down' = TRUE
         /\ UNCHANGED <<queue, enqueued>>

\* The remote address of connection c's handshake: two connections per host
remote_addr(c) == ((c - 1) \div 2) + 1

\* GameServer::on_open. The id is the generator's next serial (MASK 0,
\* server.rs), or, with ip-address-player-ids, the connection's remote address
\* (PlayerIdResolver::resolve_id, main.rs). send_ping and out.timeout are
\* taken to succeed (a failure returns before the send).
on_open(c) ==
    /\ senders.alive
    /\ UNCHANGED <<senders, cancelled_at, sideVars, since_bcast>>
    /\ ~server_down
    /\ conns[c].st = "new"
    /\ LET id == IF feature THEN remote_addr(c) ELSE next_id
       IN  /\ SendIntent(c, id, [type |-> "PlayerConnected"])
           /\ conns' = IF rx_alive
                       THEN [conns EXCEPT ![c].st = "open", ![c].player_id = Some(id),
                                          ![c].n = @ + 1]
                       ELSE conns
    /\ next_id' = IF feature \/ ~rx_alive THEN next_id ELSE next_id + 1
    /\ UNCHANGED <<players, enemies, projectiles, feature, clock, last, apiVars,
                   pc, tick, scan, cancel_flag, applied, bcast, committed>>

\* GameServer::on_message with a text payload that decodes to update
on_message(c, update) ==
    /\ senders.alive
    /\ UNCHANGED <<senders, cancelled_at, sideVars, since_bcast>>
    /\ ~server_down
    /\ conns[c].st = "open"
    /\ conns[c].sent < MaxMsgs
    /\ SendIntent(c, unwrap(conns[c].player_id), update)
    /\ conns' = IF rx_alive
                THEN [conns EXCEPT ![c].sent = @ + 1, ![c].n = @ + 1]
                ELSE conns
    /\ UNCHANGED <<players, enemies, projectiles, feature, clock, last, apiVars,
                   pc, tick, scan, cancel_flag, next_id, applied, bcast, committed>>

\* GameServer::on_close
on_close(c) ==
    /\ senders.alive
    /\ UNCHANGED <<senders, cancelled_at, sideVars, since_bcast>>
    /\ ~server_down
    /\ conns[c].st = "open"
    /\ SendIntent(c, unwrap(conns[c].player_id), [type |-> "PlayerDisconnected"])
    /\ conns' = IF rx_alive
                THEN [conns EXCEPT ![c].st = "closed", ![c].n = @ + 1]
                ELSE conns
    /\ UNCHANGED <<players, enemies, projectiles, feature, clock, last, apiVars,
                   pc, tick, scan, cancel_flag, next_id, applied, bcast, committed>>

\* The owner's cancel(): cancel_flag.store(true) (the flag is read by the
\* loop alone, so a store after the loop has ended is left out)
cancel ==
    /\ ~cancel_flag
    /\ rx_alive
    /\ cancel_flag' = TRUE
    /\ cancelled_at' = Some(Len(applied))
    /\ UNCHANGED <<senders, sideVars, since_bcast>>
    /\ UNCHANGED <<players, enemies, projectiles, feature, clock, last, apiVars,
                   pc, tick, scan, queue, conns, next_id, server_down,
                   enqueued, applied, bcast, committed>>

\* ------------------------------------------------- loop_until_cancelled
\* Where the loop goes once an intent has been applied: back to its head
after_apply_drain == "recv"
after_apply == "loop"

loop_head_ignores_cancel(c) ==
    /\ UNCHANGED <<senders, cancelled_at, sideVars>>
    /\ pc = "loop"
    /\ clock' = c
    /\ IF projectiles = <<>>
       THEN /\ pc' = "broadcast"
            /\ since_bcast' = [since_bcast EXCEPT !.advances = @ + 1]
            /\ UNCHANGED tick
       ELSE /\ pc' = "progress"
            /\ tick' = [k |-> 1, rem |-> all_enemies(TheWorld),
                        now_ms |-> unix_time_ms(c)]
            /\ UNCHANGED since_bcast
    /\ UNCHANGED <<players, enemies, projectiles, feature, last, apiVars,
                   scan, cancel_flag, queue, conns, next_id, server_down,
                   enqueued, applied, bcast, committed>>

\* while !cancelled(): leave the loop with Ok(()), or start the iteration by
\* entering progress_projectiles, which reads the clock (c is the time read)
loop_head(c) ==
    /\ UNCHANGED <<senders, cancelled_at, sideVars>>
    /\ pc = "loop"
    /\ IF cancel_flag
       THEN /\ pc' = "stopped"
            /\ UNCHANGED <<clock, tick, since_bcast>>
       ELSE /\ clock' = c
            /\ IF projectiles = <<>>
               THEN /\ pc' = "broadcast"
                    /\ since_bcast' = [since_bcast EXCEPT !.advances = @ + 1]
                    /\ UNCHANGED tick
               ELSE /\ pc' = "progress"
                    /\ tick' = [k |-> 1, rem |-> all_enemies(TheWorld),
                                now_ms |-> unix_time_ms(c)]
                    /\ UNCHANGED since_bcast
    /\ UNCHANGED <<players, enemies, projectiles, feature, last, apiVars,
                   scan, cancel_flag, queue, conns, next_id, server_down,
                   enqueued, applied, bcast, committed>>

\* One iteration of progress_projectiles' loop over state.projectiles
progress_step(overflow_checks) ==
    /\ UNCHANGED <<senders, cancelled_at, sideVars>>
    /\ pc = "progress"
    /\ LET r == progress_one(TheWorld, tick.k, tick.rem, tick.now_ms, overflow_checks)
       IN  IF r.res # "Ok"
           THEN /\ pc' = "panicked"
                /\ UNCHANGED <<players, enemies, projectiles, tick, committed,
                               since_bcast>>
           ELSE /\ SetWorld(r.w)
                /\ IF tick.k = Len(projectiles)
                   THEN /\ pc' = "broadcast"
                        /\ tick' = NoTick
                        /\ committed' = r.w
                        /\ since_bcast' = [since_bcast EXCEPT !.advances = @ + 1]
                   ELSE /\ tick' = [tick EXCEPT !.k = @ + 1, !.rem = r.rem]
                        /\ UNCHANGED <<pc, committed, since_bcast>>
    /\ UNCHANGED <<feature, clock, last, apiVars, scan, cancel_flag, queue, conns, next_id,
                   server_down, enqueued, applied, bcast>>

Broadcast(w) == [snapshot |-> w, whole |-> w = committed, applied |-> Len(applied)]

broadcast_state_unsynchronized(ok) ==
    /\ UNCHANGED <<senders, cancelled_at, sideVars>>
    /\ pc \in {"broadcast", "progress", "hitscan"}
    /\ IF ok
       THEN /\ bcast' = Some(Broadcast(TheWorld))
            /\ since_bcast' = NothingSince
            /\ pc' = IF pc = "broadcast" THEN "recv" ELSE pc
       ELSE /\ pc' = "failed"
            /\ UNCHANGED <<bcast, since_bcast>>
    /\ UNCHANGED <<players, enemies, projectiles, feature, clock, last, apiVars,
                   tick, scan, cancel_flag, queue, conns, next_id, server_down,
                   enqueued, applied, committed>>

broadcast_state_swallows_error(ok) ==
    /\ UNCHANGED <<senders, cancelled_at, sideVars>>
    /\ pc = "broadcast"
    /\ pc' = "recv"
    /\ bcast' = IF ok THEN Some(Broadcast(TheWorld)) ELSE bcast
    /\ since_bcast' = IF ok THEN NothingSince ELSE since_bcast
    /\ UNCHANGED <<players, enemies, projectiles, feature, clock, last, apiVars,
                   tick, scan, cancel_flag, queue, conns, next_id, server_down,
                   enqueued, applied, committed>>

\* broadcast_state: serialize self.state and hand it to the broadcaster; ok
\* says whether broadcaster.send succeeds
broadcast_state(ok) ==
    /\ UNCHANGED <<senders, cancelled_at, sideVars>>
    /\ pc = "broadcast"
    /\ IF ok
       THEN /\ bcast' = Some(Broadcast(TheWorld))
            /\ since_bcast' = NothingSince
            /\ pc' = "recv"
       ELSE /\ pc' = "failed"
            /\ UNCHANGED <<bcast, since_bcast>>
    /\ UNCHANGED <<players, enemies, projectiles, feature, clock, last, apiVars,
                   tick, scan, cancel_flag, queue, conns, next_id, server_down,
                   enqueued, applied, committed>>

\* The enemies of in_projectile_path, in the order the for loop visits them
hitscan_path(w, projectile) ==
    SelectSeq(all_enemies(w), LAMBDA i : i \in in_projectile_path(w, projectile))

IsHitscan(update) ==
    /\ update.type = "ProjectileCreated"
    /\ ~IsSome(lookup_projectile_info(update.projectile.projectile_type).speed)

\* handle_player_update has returned res for intent m
Returned(m, w, res) ==
    /\ last' = Call(m.update, m.id, res)
    /\ IF res = "Ok"
       THEN /\ SetWorld(w)
            /\ committed' = w
            /\ applied' = Append(applied, m.tag)
            /\ pc' = after_apply
            /\ since_bcast' = [since_bcast EXCEPT !.intents = @ + 1]
       ELSE /\ UNCHANGED <<players, enemies, projectiles, committed, applied,
                           since_bcast>>
            /\ pc' = IF res = "Err" THEN "failed" ELSE "panicked"

\* recv_timeout returned Ok(ChannelUpdate): handle_player_update is called
\* (a hitscan that hits enemies goes on in hitscan_step)
recv_ok ==
    /\ UNCHANGED <<senders, cancelled_at, sideVars>>
    /\ pc = "recv"
    /\ queue # <<>>
    /\ LET m == front(queue)
       IN  /\ queue' = dequeue(queue)
           /\ IF IsHitscan(m.update) /\ hitscan_path(TheWorld, m.update.projectile) # <<>>
              THEN /\ scan' = [path |-> hitscan_path(TheWorld, m.update.projectile),
                               intent |-> Some(m)]
                   /\ pc' = "hitscan"
                   /\ UNCHANGED <<players, enemies, projectiles, last, committed, applied,
                                  since_bcast>>
              ELSE /\ LET r == handle_player_update(TheWorld, feature, m.id, m.update)
                      IN  Returned(m, r.w, r.res)
                   /\ UNCHANGED scan
    /\ UNCHANGED <<feature, clock, apiVars, tick, cancel_flag, conns, next_id,
                   server_down, enqueued, bcast>>

hitscan_step_checks_cancel ==
    /\ UNCHANGED <<senders, cancelled_at, sideVars>>
    /\ pc = "hitscan"
    /\ LET i == Head(scan.path)
           m == unwrap(scan.intent)
           damage == lookup_projectile_info(m.update.projectile.projectile_type).damage
           w == [TheWorld EXCEPT !.enemies[i] = hitscan_damage_enemy(enemies[i], damage)]
       IN  IF cancel_flag
           THEN /\ pc' = "stopped"
                /\ UNCHANGED <<players, enemies, projectiles, scan, last, committed,
                               applied, since_bcast>>
           ELSE IF Tail(scan.path) = <<>>
           THEN /\ Returned(m, w, "Ok")
                /\ scan' = NoScan
           ELSE /\ SetWorld(w)
                /\ scan' = [scan EXCEPT !.path = Tail(@)]
                /\ UNCHANGED <<pc, last, committed, applied, since_bcast>>
    /\ UNCHANGED <<feature, clock, apiVars, tick, cancel_flag, queue, conns, next_id,
                   server_down, enqueued, bcast>>

\* One iteration of the loop over in_projectile_path
hitscan_step ==
    /\ UNCHANGED <<senders, cancelled_at, sideVars>>
    /\ pc = "hitscan"
    /\ LET i == Head(scan.path)
           m == unwrap(scan.intent)
           damage == lookup_projectile_info(m.update.projectile.projectile_type).damage
           w == [TheWorld EXCEPT !.enemies[i] = hitscan_damage_enemy(enemies[i], damage)]
       IN  IF Tail(scan.path) = <<>>
           THEN /\ Returned(m, w, "Ok")
                /\ scan' = NoScan
           ELSE /\ SetWorld(w)
                /\ scan' = [scan EXCEPT !.path = Tail(@)]
                /\ UNCHANGED <<pc, last, committed, applied, since_bcast>>
    /\ UNCHANGED <<feature, clock, apiVars, tick, cancel_flag, queue, conns, next_id,
                   server_down, enqueued, bcast>>

\* Where the loop goes from Err(Timeout): continue, to its head
after_timeout_rebroadcasts == "broadcast"
after_timeout == "loop"

\* recv_timeout returned Err(Timeout): continue
recv_timeout ==
    /\ senders.alive
    /\ UNCHANGED <<senders, cancelled_at, sideVars, since_bcast>>
    /\ pc = "recv"
    /\ queue = <<>>
    /\ pc' = after_timeout
    /\ UNCHANGED <<players, enemies, projectiles, feature, clock, last, apiVars,
                   tick, scan, cancel_flag, queue, conns, next_id, server_down,
                   enqueued, applied, bcast, committed>>

Controller ==
    \/ \E c \in clock..Min2(clock + 1, MaxSysClock) : loop_head(c)
    \/ \E overflow_checks \in BOOLEAN : progress_step(overflow_checks)
    \/ \E ok \in BOOLEAN : broadcast_state(ok)
    \/ recv_ok
    \/ hitscan_step
    \/ recv_timeout

Handlers ==
    \/ \E c \in Conns : on_open(c)
    \/ \E c \in Conns, update \in SysUpdates : on_message(c, update)
    \/ \E c \in Conns : on_close(c)

\* The state after GameController::new and GameServer::new, for either
\* build, with an empty enemy list or with an enemy of health 1 and one of
\* health 10 in the world (see InitCombat)
Init ==
    /\ players = EmptyMap
    /\ enemies \in { SpawnEnemies(hs) : hs \in SysEnemyConfigs }
    /\ projectiles = <<>>
    /\ feature \in BOOLEAN
    /\ clock = 0
    /\ ncalls = 0
    /\ pre = World(players, enemies, projectiles)
    /\ last = NoCall
    /\ hist = <<>>
    /\ InitSys
    /\ InitSide

Next == Controller \/ Handlers \/ cancel

Spec == Init /\ [][Next]_vars

\* A run in which the owner never cancels, the controller thread being
\* scheduled for as long as it has a step to take
NextUncancelled == Controller \/ Handlers
FairSpec == Init /\ [][NextUncancelled]_vars /\ WF_vars(Controller)

\* The tags of the intents in the channel, oldest first
QueueTags == [k \in 1..Len(queue) |-> queue[k].tag]
InHand == IF pc = "hitscan" THEN <<unwrap(scan.intent).tag>> ELSE <<>>
IsPrefix(a, b) == Len(a) <= Len(b) /\ SubSeq(b, 1, Len(a)) = a
NoDuplicates(q) == \A i, j \in 1..Len(q) : q[i] = q[j] => i = j
MaxIntents == NumConns * (MaxMsgs + 2)

\* C5: no intent is applied twice or without having been enqueued, every
\* intent enqueued is applied, waiting in the channel or in hand, and, the
\* controller thread being scheduled, the n-th intent enqueued is eventually
\* applied unless the controller is cancelled or fails first (again and again
\* the intents applied are exactly the intents enqueued); so K handlers that
\* enqueue M intents each get exactly K*M intents applied.
C5_EveryIntentAppliedOnce ==
    /\ [](/\ NoDuplicates(applied)
          /\ rx_alive => Len(applied) + Len(InHand) + Len(queue) = Len(enqueued)
          /\ \A k \in 1..Len(applied) : \E j \in 1..Len(enqueued) : enqueued[j] = applied[k])
    /\ []<>(applied = enqueued \/ pc \in Terminal)

C5_Witness ==
    /\ Len(applied) = MaxIntents
    /\ Len(enqueued) = MaxIntents
    /\ \A c \in Conns : conns[c].st = "closed" /\ conns[c].sent = MaxMsgs
    /\ pc \notin Terminal

\* C7: the intents applied are, in order, the first intents enqueued: the
\* controller applies intents in the order they were placed on the channel,
\* and what is in hand or still waiting follows in that order.
C7_AppliedInQueueOrder ==
    /\ IsPrefix(applied, enqueued)
    /\ (rx_alive => applied \o InHand \o QueueTags = enqueued)

C7_Witness ==
    /\ Len(applied) >= 4
    /\ applied[1][1] # applied[2][1]
    /\ applied[2][1] # applied[3][1]
    /\ queue # <<>>

\* C2 (as claimed): when handle_player_update has rejected a duplicate
\* Connect, the controller loop has not ended with an error.
C2_RejectedConnectKeepsRunning ==
    (last.update.type = "PlayerConnected" /\ last.res = "Err") => pc # "failed"

\* C6: every broadcast emitted was a snapshot of the world as of a completed
\* call (no intent and no projectile advance was under way in it), and right
\* after a broadcast the snapshot is the world itself.
C6_SnapshotsAreWhole ==
    /\ IsSome(bcast) => unwrap(bcast).whole
    /\ pc = "recv" => (IsSome(bcast) /\ unwrap(bcast).snapshot = TheWorld
                        /\ TheWorld = committed)

C6_Witness ==
    /\ IsSome(bcast)
    /\ Len(unwrap(bcast).snapshot.enemies) = 2
    /\ unwrap(bcast).snapshot.enemies[1].health = 0
    /\ unwrap(bcast).snapshot.enemies[2].health = 9
    /\ pc = "hitscan"
    /\ TheWorld # committed
    /\ enemies[1].health = -1
    /\ enemies[2].health = 9

BroadcastApplied == IF IsSome(bcast) THEN unwrap(bcast).applied ELSE 0

\* C8 (as claimed): when the loop has ended on cancellation, every intent
\* applied has been shown by a broadcast emitted after it was applied.
C8_EveryAppliedIntentIsBroadcast ==
    pc = "stopped" => BroadcastApplied = Len(applied)

\* C8 (amended): at most one applied intent is ever awaiting broadcast, and
\* each broadcast emitted shows the world with every intent applied so far:
\* the player a Connect added or reconnected is in it as Connected, the
\* position a PositionUpdate set is in it.
C8_NextBroadcastShowsAppliedIntent ==
    /\ Len(applied) - BroadcastApplied <= 1
    /\ pc = "recv" =>
        /\ BroadcastApplied = Len(applied)
        /\ unwrap(bcast).snapshot = TheWorld
        /\ (applied # <<>> /\ last.update.type = "PlayerConnected") =>
              /\ last.id \in DOMAIN unwrap(bcast).snapshot.players
              /\ unwrap(bcast).snapshot.players[last.id].connection_status = "Connected"
        /\ (applied # <<>> /\ last.update.type = "PositionUpdate") =>
              unwrap(bcast).snapshot.players[last.id].position = last.update.position

C8_Witness ==
    /\ pc = "recv"
    /\ Len(applied) = 2
    /\ BroadcastApplied = 2
    /\ last.update.type = "PositionUpdate"
    /\ unwrap(bcast).snapshot.players[last.id].position = last.update.position

\* =====================================================================
\* Damage, death and the penetration budget
\* =====================================================================

\* C11 (as claimed): after every dispatch call and every tick, no enemy has
\* health <= 0 together with status Alive.
C11_NoAliveEnemyWithoutHealth ==
    \A i \in 1..Len(enemies) : enemies[i].health <= 0 => enemies[i].status = "Dead"

\* C12: no call turns a Dead enemy into anything but a Dead enemy (the enemy
\* list keeps its length and order, so an enemy dies at most once).
C12_DeadStaysDead ==
    [][ /\ Len(enemies') = Len(enemies)
        /\ \A i \in 1..Len(enemies) :
              /\ enemies'[i].enemy_id = enemies[i].enemy_id
              /\ enemies[i].status = "Dead" => enemies'[i].status = "Dead" ]_vars

C12_Witness ==
    /\ Len(enemies) >= 1
    /\ pre.enemies[1].status = "Dead"
    /\ enemies[1].status = "Dead"
    /\ enemies[1].health < pre.enemies[1].health

\* The budget a projectile in flight may carry: ProjectileInfo.num_penetrations
\* is an Option<isize>, unset or a count
InFlightBudgets == { None } \cup { Some(n) : n \in 1..MaxBudget }
\* A projectile of type ty fired at time 0 from o in direction d and still in
\* flight with budget b
InFlight(ty, o, d, b) ==
    [player_id |-> 1,
     projectile |-> ProjectileSnaphot(ty, PositionStamped(o, 0),
                        scale(normalize(d), unwrap(lookup_projectile_info(ty).speed))),
     current_info |-> [lookup_projectile_info(ty) EXCEPT !.num_penetrations = b]]
BudgetUpdates ==
    { [type |-> "ProjectileCreated",
       projectile |-> ProjectileSnaphot(Projectile0, PositionStamped(o, 0), d)] :
        o \in AttackOrigins, d \in Dirs }

\* progress_projectiles and handle_player_update driven from a world that
\* already holds one projectile in flight, of any budget the type allows
InitBudget ==
    /\ players = EmptyMap
    /\ enemies \in { SpawnEnemies(hs) : hs \in EnemyConfigs }
    /\ projectiles \in { <<InFlight(Projectile0, o, d, b)>> :
                            o \in AttackOrigins, d \in Dirs, b \in InFlightBudgets }
    /\ feature = FALSE
    /\ clock = 0
    /\ ncalls = 0
    /\ pre = World(players, enemies, projectiles)
    /\ last = NoCall
    /\ hist = <<>>
    /\ InitSys
    /\ InitSide

NextBudget ==
    \/ \E update \in BudgetUpdates : ApiProjectileCreated(1, update)
    \/ \E c \in clock..Min2(clock + 1, MaxClock), overflow_checks \in BOOLEAN :
            ApiProgressProjectiles(c, overflow_checks)

SpecBudget == InitBudget /\ [][NextBudget]_vars

Budget(p) == p.current_info.num_penetrations
LastIsTick == last.update.type = "progress_projectiles"
\* What projectile k spent of its budget in the last call
Spent(k) ==
    IF IsSome(Budget(pre.projectiles[k]))
    THEN unwrap(Budget(pre.projectiles[k])) - unwrap(Budget(projectiles[k]))
    ELSE 0
RECURSIVE SumUpTo(_, _)
SumUpTo(f, n) == IF n = 0 THEN 0 ELSE f[n] + SumUpTo(f, n - 1)
HealthLost == SumUpTo([i \in 1..Len(enemies) |-> pre.enemies[i].health - enemies[i].health],
                      Len(enemies))
DamageSpent ==
    SumUpTo([k \in 1..Len(pre.projectiles) |->
                pre.projectiles[k].current_info.damage * Spent(k)], Len(pre.projectiles))
OnRay(p, es) ==
    { i \in 1..Len(es) : RayMeetsBox(p.projectile.origin.xy, normalize(p.projectile.vel),
                                     es[i].position.xy) }

\* C13: a projectile's set budget never goes below 0 or above what it started
\* with; the health the enemies lose in a tick is the damage of each
\* projectile times the budget it spent in that tick; a tick in which every
\* projectile's budget is already 0 damages nobody; and a lone projectile of
\* budget 1 with one enemy on its ray takes exactly its damage from that
\* enemy and ends with budget 0.
C13_BudgetBoundsDamage ==
    /\ \A k \in 1..Len(projectiles) :
            IsSome(Budget(projectiles[k])) => unwrap(Budget(projectiles[k])) \in 0..MaxBudget
    /\ (LastIsTick /\ last.res = "Ok") =>
        /\ \A k \in 1..Len(pre.projectiles) : Spent(k) >= 0
        /\ HealthLost = DamageSpent
        /\ (\A k \in 1..Len(pre.projectiles) : Budget(pre.projectiles[k]) = Some(0))
                => enemies = pre.enemies
        /\ \A i \in 1..Len(pre.enemies) :
            ( /\ Len(pre.projectiles) = 1
              /\ Budget(pre.projectiles[1]) = Some(1)
              /\ OnRay(pre.projectiles[1], pre.enemies) = {i} )
            => /\ enemies[i].health =
                    pre.enemies[i].health - pre.projectiles[1].current_info.damage
               /\ Budget(projectiles[1]) = Some(0)

C13_Witness ==
    /\ LastIsTick /\ last.res = "Ok"
    /\ Len(projectiles) = 1
    /\ Budget(pre.projectiles[1]) = Some(0)
    /\ Budget(projectiles[1]) = Some(0)
    /\ Len(enemies) = 2
    /\ enemies[1].health = 0
    /\ enemies[2].health = -9
    /\ OnRay(projectiles[1], enemies) = {1, 2}

\* C14 (as claimed): after a tick, no projectile whose budget is 0 is left in
\* the projectile list.
C14_ExhaustedProjectilesRemoved ==
    (LastIsTick /\ last.res = "Ok")
    => \A k \in 1..Len(projectiles) : Budget(projectiles[k]) # Some(0)

\* C15 (as claimed): a tick over a projectile whose budget is unset completes
\* without failing, leaves that budget unset, and takes the projectile's
\* damage from every enemy on its ray.
C15_UnsetBudgetIsUnlimited ==
    ( /\ LastIsTick
      /\ Len(pre.projectiles) = 1
      /\ Budget(pre.projectiles[1]) = None )
    => /\ last.res = "Ok"
       /\ Budget(projectiles[1]) = None
       /\ \A i \in OnRay(pre.projectiles[1], pre.enemies) :
            enemies[i].health = pre.enemies[i].health - pre.projectiles[1].current_info.damage
LastIsProjectileLaunch ==
    /\ last.update.type = "ProjectileCreated"
    /\ IsSome(lookup_projectile_info(last.update.projectile.projectile_type).speed)

\* C16: a call handling a non-hitscan AttackCreated returns Ok having appended
\* exactly one projectile, owned by the caller, whose budget, damage and speed
\* are the type table's, and having left the earlier projectiles (their
\* budgets included) and the enemies as they were; a tick keeps the list's
\* length, each projectile's damage and speed, and the budget of every
\* projectile whose own ray meets no enemy.
C16_BudgetIsPerInstance ==
    /\ LastIsProjectileLaunch =>
        LET n == Len(pre.projectiles)
        IN  /\ last.res = "Ok"
            /\ Len(projectiles) = n + 1
            /\ SubSeq(projectiles, 1, n) = pre.projectiles
            /\ projectiles[n + 1].current_info =
                    lookup_projectile_info(last.update.projectile.projectile_type)
            /\ projectiles[n + 1].player_id = last.id
            /\ enemies = pre.enemies
    /\ (LastIsTick /\ last.res = "Ok") =>
        /\ Len(projectiles) = Len(pre.projectiles)
        /\ \A k \in 1..Len(projectiles) :
            /\ projectiles[k].current_info.damage = pre.projectiles[k].current_info.damage
            /\ projectiles[k].current_info.speed = pre.projectiles[k].current_info.speed
            /\ OnRay(pre.projectiles[k], pre.enemies) = {}
                    => Budget(projectiles[k]) = Budget(pre.projectiles[k])

C16_Witness ==
    /\ LastIsProjectileLaunch
    /\ Len(projectiles) = 2
    /\ Budget(projectiles[1]) = Some(0)
    /\ Budget(projectiles[2]) = Some(1)
    /\ Budget(projectiles[2]) = lookup_projectile_info(Projectile0).num_penetrations

\* C17 (as claimed): a tick returns Ok having moved every projectile by its
\* velocity times the seconds between its stored timestamp and the tick's
\* now, and having set its timestamp to now.
C17_AdvancedByElapsedTime ==
    LastIsTick =>
        /\ last.res = "Ok"
        /\ \A k \in 1..Len(pre.projectiles) :
            LET p == pre.projectiles[k].projectile
                now_ms == unix_time_ms(clock)
                elapsed_ms == now_ms - p.origin.time_ms
            IN  /\ projectiles[k].projectile.origin.time_ms = now_ms
                /\ projectiles[k].projectile.origin.xy =
                        <<p.origin.xy[1] + (p.vel[1] * elapsed_ms) \div 1000,
                          p.origin.xy[2] + (p.vel[2] * elapsed_ms) \div 1000>>
                /\ projectiles[k].projectile.vel = p.vel

\* =====================================================================
\* How the controller loop ends
\* =====================================================================

\* C18: the controller leaves broadcast_state either to wait for an intent,
\* having emitted the snapshot, or with an error result, having emitted
\* nothing; and once it has ended with an error it stays ended: no further
\* broadcast is emitted, no intent is dequeued or applied, the world is left
\* as it is.
C18_BroadcastFailureIsFatal ==
    [][ /\ (pc = "broadcast" /\ pc' # "broadcast") =>
            \/ pc' = "recv" /\ bcast' = Some(Broadcast(TheWorld))
            \/ /\ pc' = "failed"
               /\ UNCHANGED <<bcast, applied, queue, players, enemies, projectiles>>
        /\ pc = "failed" =>
            /\ pc' = "failed"
            /\ UNCHANGED <<bcast, applied, queue, players, enemies, projectiles>> ]_vars

C18_Witness ==
    /\ pc = "failed"
    /\ last.res = "Ok"
    /\ applied # <<>>
    /\ queue # <<>>
    /\ BroadcastApplied < Len(applied)
    /\ server_down

\* The websocket server ends and the channel's owner goes out of scope: the
\* factory's Sender and every handler's clone are dropped; what is buffered
\* stays in the channel
drop_senders ==
    /\ senders.alive
    /\ ~server_down
    /\ rx_alive
    /\ senders' = [senders EXCEPT !.alive = FALSE, !.buffered = Len(queue)]
    /\ UNCHANGED <<players, enemies, projectiles, feature, clock, last, apiVars,
                   pc, tick, scan, cancel_flag, queue, conns, next_id, server_down,
                   enqueued, applied, bcast, committed, cancelled_at, sideVars,
                   since_bcast>>

recv_disconnected_at_once ==
    /\ pc = "recv"
    /\ ~senders.alive
    /\ pc' = "failed"
    /\ senders' = [senders EXCEPT !.disconnected = TRUE]
    /\ UNCHANGED <<players, enemies, projectiles, feature, clock, last, apiVars,
                   tick, scan, cancel_flag, queue, conns, next_id, server_down,
                   enqueued, applied, bcast, committed, cancelled_at, sideVars,
                   since_bcast>>

\* recv_timeout returned Err(Disconnected), as it does once every Sender is
\* dropped and the channel is empty: return Err("update channel disconnected")
recv_disconnected ==
    /\ pc = "recv"
    /\ queue = <<>>
    /\ ~senders.alive
    /\ pc' = "failed"
    /\ senders' = [senders EXCEPT !.disconnected = TRUE]
    /\ UNCHANGED <<players, enemies, projectiles, feature, clock, last, apiVars,
                   tick, scan, cancel_flag, queue, conns, next_id, server_down,
                   enqueued, applied, bcast, committed, cancelled_at, sideVars,
                   since_bcast>>

\* A run in which the Senders may go away, the owner never cancelling
NextDisconnect == Controller \/ Handlers \/ drop_senders \/ recv_disconnected
SpecDisconnect == Init /\ [][NextDisconnect]_vars

\* C19: when every Sender is gone and the channel is empty, the controller's
\* wait can only end the loop with an error; and the loop has ended on a
\* disconnected channel only when every intent ever enqueued, those still
\* buffered when the Senders went away included, had been applied.
C19_DisconnectedChannelIsFatal ==
    /\ [][ (pc = "recv" /\ queue = <<>> /\ ~senders.alive /\ pc' # pc)
            => (pc' = "failed" /\ senders'.disconnected) ]_vars
    /\ [](senders.disconnected =>
            /\ pc = "failed"
            /\ ~senders.alive
            /\ queue = <<>>
            /\ applied = enqueued)

C19_Witness ==
    /\ senders.disconnected
    /\ senders.buffered >= 2
    /\ pc = "failed"
    /\ Len(applied) >= 3
    /\ applied = enqueued

\* A run in which the owner may cancel, the controller thread being
\* scheduled for as long as it has a step to take
FairCancelSpec == Spec /\ WF_vars(Controller)

\* C20 (as claimed): once the flag has been set, the loop, when it has ended,
\* has ended with a success result.
C20_CancelledLoopStopsWithSuccess ==
    (cancel_flag /\ pc \in Terminal) => pc = "stopped"

\* C20 (amended): once the flag is set the loop ends, with Ok(()) or with the
\* failure of the iteration under way; at most one intent is applied after
\* the flag was set; at the loop test the flag lets the controller do nothing
\* but leave with Ok(()); and the loop ends with Ok(()) only on the flag.
\* (The flag is never cleared and an ended loop stays ended, so "again and
\* again the flag is clear or the loop has ended" says the loop ends once the
\* flag is set.)
C20_CancelEndsLoop ==
    /\ []<>(~cancel_flag \/ pc \in Terminal)
    /\ [](cancel_flag => Len(applied) <= unwrap(cancelled_at) + 1)
    /\ [][ (cancel_flag /\ pc = "loop" /\ pc' # pc) => pc' = "stopped" ]_vars
    /\ [](pc = "stopped" => cancel_flag)

C20_Witness ==
    /\ pc = "stopped"
    /\ cancel_flag
    /\ Len(applied) = unwrap(cancelled_at) + 1
    /\ queue # <<>>

\* ============================================= utils.rs: get_next_id
\* The world, the callers of the public methods and the system stand still
\* while the generator's threads run
IdFrame ==
    UNCHANGED <<players, enemies, projectiles, feature, clock, last, apiVars,
                sysVars, diag, config, wire, ping>>

\* self.get_next_id_mutex().lock().unwrap(): the caller waits while another
\* thread holds the Mutex, and panics on a poisoned one
gen_lock(t) ==
    /\ idgen.thr[t].pc = "idle"
    /\ idgen.calls < MaxAllocs
    /\ idgen.lock = 0
    /\ idgen' = IF idgen.poisoned
                THEN [idgen EXCEPT !.thr[t].pc = "panicked"]
                ELSE [idgen EXCEPT !.lock = t, !.thr[t].pc = "locked",
                                   !.calls = @ + 1]
    /\ IdFrame

\* let id = *data
gen_read(t) ==
    /\ idgen.thr[t].pc = "locked"
    /\ idgen' = [idgen EXCEPT !.thr[t] = [pc |-> "read", id |-> idgen.next_id]]
    /\ IdFrame

\* if (id & Self::MASK) != 0 { panic!("overflow of ids, ..") }: the guard is
\* dropped by the unwinding, which poisons the Mutex
gen_check(t) ==
    /\ idgen.thr[t].pc = "read"
    /\ idgen' = IF id_overflows(idgen.cat, idgen.thr[t].id)
                THEN [idgen EXCEPT !.thr[t].pc = "panicked", !.lock = 0,
                                   !.poisoned = TRUE]
                ELSE [idgen EXCEPT !.thr[t].pc = "checked"]
    /\ IdFrame

\* *data += 1, on the unsigned integer of IdBits bits: past its maximum the
\* addition panics with overflow-checks and wraps to 0 without
gen_increment(t) ==
    /\ idgen.thr[t].pc = "checked"
    /\ idgen' = IF idgen.next_id + 1 < IdSpace
                THEN [idgen EXCEPT !.next_id = @ + 1, !.thr[t].pc = "incremented"]
                ELSE IF idgen.overflow_checks
                THEN [idgen EXCEPT !.thr[t].pc = "panicked", !.lock = 0,
                                   !.poisoned = TRUE]
                ELSE [idgen EXCEPT !.next_id = 0, !.thr[t].pc = "incremented"]
    /\ IdFrame

\* return id | Self::MASK, the guard being dropped
gen_return(t) ==
    /\ idgen.thr[t].pc = "incremented"
    /\ LET id == tagged_id(idgen.cat, idgen.thr[t].id)
       IN  idgen' = [idgen EXCEPT
                !.thr[t] = IdleThread,
                !.lock = 0,
                !.issued = @ \cup {id},
                !.twice = @ \/ id \in idgen.issued,
                !.returned = Some([id |-> id, serial |-> idgen.thr[t].id,
                                   next_id |-> idgen.next_id, thread |-> t])]
    /\ IdFrame

get_next_id(t) ==
    gen_lock(t) \/ gen_read(t) \/ gen_check(t) \/ gen_increment(t) \/ gen_return(t)

\* One generator of any category, made by new(first_id) for any first_id,
\* and called by NumThreads threads
InitIds ==
    /\ players = EmptyMap
    /\ enemies = <<>>
    /\ projectiles = <<>>
    /\ feature = FALSE
    /\ clock = 0
    /\ ncalls = 0
    /\ pre = World(EmptyMap, <<>>, <<>>)
    /\ last = NoCall
    /\ hist = <<>>
    /\ InitSys
    /\ idgen \in { NewIdGenerator(cat, first_id, oc) :
                    cat \in Categories, first_id \in 0..(IdSpace - 1), oc \in BOOLEAN }
    /\ diag = NoDiag
    /\ config = [NewConfig(NoEnv) EXCEPT !.pc = "done"]
    /\ wire = NoWire
    /\ ping = NoPing

NextIds == \E t \in Threads : get_next_id(t)
SpecIds == InitIds /\ [][NextIds]_vars

\* An id that the generator of category cat returns from some serial
CanReturn(cat, id) ==
    \E serial \in 0..(IdSpace - 1) :
        ~id_overflows(cat, serial) /\ tagged_id(cat, serial) = id

\* C21: no generator returns an id it has returned before, and each call
\* that returns leaves the counter exactly one above the serial it read.
C21_DistinctIdsCounterAdvancesByOne ==
    /\ ~idgen.twice
    /\ IsSome(idgen.returned) =>
        unwrap(idgen.returned).next_id = unwrap(idgen.returned).serial + 1

\* C22: every id returned carries its category's tag in the two top bits and
\* is an id no generator of another category returns.
C22_TaggedAndDisjoint ==
    IsSome(idgen.returned) =>
        LET id == unwrap(idgen.returned).id
        IN  /\ TagBits(id) = TagBits(MASK(idgen.cat))
            /\ \A other \in Categories \ {idgen.cat} : ~CanReturn(other, id)

\* C23: a call that reads a serial occupying a tag bit panics instead of
\* returning, the serial of a returned id lies below the tag bits, and the
\* counter never goes down.
C23_SerialInTagBitsIsFatal ==
    /\ \A t \in Threads :
        idgen.thr[t].pc \in {"checked", "incremented"} => idgen.thr[t].id < SerialSpace
    /\ IsSome(idgen.returned) =>
        /\ unwrap(idgen.returned).serial < SerialSpace
        /\ unwrap(idgen.returned).next_id > unwrap(idgen.returned).serial

\* ================================ server.rs: on_message, undecodable text
\* A text payload: the "type" tag of the JSON object and its other fields,
\* if they are those of the variant (no tag: the text is no JSON object)
Text(type, body) == [type |-> type, body |-> body]
Texts ==
    { Text(ty, b) :
        ty \in {"", "POSITION_UPDATE", "PROJECTILE_CREATED", "PLAYER_CONNECTED"},
        b \in {None} \cup { Some(u) : u \in SysUpdates } }

\* serde_json::from_str::<ClientUpdate>: the variant is chosen by the tag,
\* PlayerConnected and PlayerDisconnected being #[serde(skip)]
from_str(json) ==
    CASE json.type = "POSITION_UPDATE" /\ IsSome(json.body)
            /\ unwrap(json.body).type = "PositionUpdate" -> json.body
      [] json.type = "PROJECTILE_CREATED" /\ IsSome(json.body)
            /\ unwrap(json.body).type = "ProjectileCreated" -> json.body
      [] OTHER -> None

send_out_broadcasts(c, ok) ==
    [d \in Conns |-> [sent |-> diag[d].sent + (IF ok THEN 1 ELSE 0),
                      result |-> IF ok THEN "Ok" ELSE "Err"]]

\* self.send_out(error_msg): self.out.send, to this connection, and its
\* result, which on_message returns
send_out(c, ok) ==
    [diag EXCEPT ![c] = [sent |-> @.sent + (IF ok THEN 1 ELSE 0),
                         result |-> IF ok THEN "Ok" ELSE "Err"]]

\* GameServer::on_message with a text payload that serde_json rejects
on_message_undecodable(c, json, ok) ==
    /\ senders.alive
    /\ ~server_down
    /\ conns[c].st = "open"
    /\ from_str(json) = None
    /\ diag[c].sent < MaxDiags
    /\ diag' = send_out(c, ok)
    /\ UNCHANGED <<players, enemies, projectiles, feature, clock, last, apiVars,
                   sysVars, idgen, config, wire, ping>>

NextDecode ==
    \/ Controller
    \/ Handlers
    \/ \E c \in Conns, json \in Texts, ok \in BOOLEAN : on_message_undecodable(c, json, ok)
\* The server of the build without ip-address-player-ids, its world holding
\* the two enemies
InitDecode ==
    /\ Init
    /\ ~feature
    /\ enemies # <<>>
SpecDecode == InitDecode /\ [][NextDecode]_vars

\* C24 as stated: a handler that met undecodable text returned success.
C24_UndecodableTextReturnsSuccess ==
    \A c \in Conns : diag[c].result # "Err"

\* C24: a step in which a handler answers undecodable text reaches that
\* connection alone, with one diagnostic when the send succeeds and none
\* when it fails, the handler returning the send's result; nothing is put on
\* the channel, and the controller, the world and every connection's
\* handler are as they were.
C24_UndecodableTextIsAnswered ==
    [][\A c \in Conns : diag'[c] # diag[c] =>
        /\ \A d \in Conns \ {c} : diag'[d] = diag[d]
        /\ diag'[c].result \in {"Ok", "Err"}
        /\ diag'[c].sent = diag[c].sent + (IF diag'[c].result = "Ok" THEN 1 ELSE 0)
        /\ UNCHANGED <<queue, enqueued, conns, server_down, senders>>
        /\ UNCHANGED <<players, enemies, projectiles, pc, tick, scan, applied,
                       bcast, committed, last>>]_vars

\* One connection has been sent a diagnostic while the other, open as well,
\* has been sent none, an intent waiting in the channel
C24_Witness ==
    /\ diag[1] = [sent |-> 1, result |-> "Ok"]
    /\ diag[2].sent = 0
    /\ conns[1].st = "open"
    /\ conns[2].st = "open"
    /\ queue # <<>>
    /\ pc = "recv"

\* ========================================== config.rs: init_env_vars
EnvNames == { "AWAIT_CLIENT_MSG_TIMEOUT_MS", "WEBSOCKETS_PINGPONG_INTERVAL_MS" }

\* One macro call of init_env_vars: the static is assigned, or the
\* unwrap of the parse's result panics
init_env_var_step(name, from, to) ==
    /\ config.pc = from
    /\ LET r == init_env_var(config.env[name], config[name])
       IN  config' = IF IsSome(r)
                     THEN [config EXCEPT ![name] = unwrap(r), !.pc = to]
                     ELSE [config EXCEPT !.pc = "panicked"]
    /\ UNCHANGED <<players, enemies, projectiles, feature, clock, last, apiVars,
                   sysVars, idgen, diag, wire, ping>>

\* init_env_var_impl!(AWAIT_CLIENT_MSG_TIMEOUT_MS, ..)
init_await_client_msg_timeout ==
    init_env_var_step("AWAIT_CLIENT_MSG_TIMEOUT_MS", "start", "first_set")

\* init_env_var!(WEBSOCKETS_PINGPONG_INTERVAL_MS)
init_websockets_pingpong_interval ==
    init_env_var_step("WEBSOCKETS_PINGPONG_INTERVAL_MS", "first_set", "done")

\* main() calling config::init() in any environment
InitConfig ==
    /\ players = EmptyMap
    /\ enemies = <<>>
    /\ projectiles = <<>>
    /\ feature = FALSE
    /\ clock = 0
    /\ ncalls = 0
    /\ pre = World(EmptyMap, <<>>, <<>>)
    /\ last = NoCall
    /\ hist = <<>>
    /\ InitSys
    /\ idgen = NewIdGenerator("Player", 0, FALSE)
    /\ diag = NoDiag
    /\ config \in { NewConfig(env) : env \in [EnvNames -> EnvValues] }
    /\ wire = NoWire
    /\ ping = NoPing

NextConfig == init_await_client_msg_timeout \/ init_websockets_pingpong_interval
SpecConfig == InitConfig /\ [][NextConfig]_vars

Unparseable(e) == e.kind = "Text" /\ parse_u64(e.value) = None

\* C25: initialisation never aborts, and once it is complete a variable
\* whose value in the environment does not parse has its default.
C25_UnparseableKeepsDefault ==
    /\ config.pc # "panicked"
    /\ config.pc = "done" =>
        \A name \in EnvNames :
            Unparseable(config.env[name]) => config[name] = NewConfig(config.env)[name]

\* ====================================== game_control.rs: broadcast_state
broadcast_state_call_drains(w, order, ok) ==
    [w |-> [w EXCEPT !.projectiles = <<>>], json |-> to_string(w, order),
     res |-> IF ok THEN "Ok" ELSE "Err"]

\* broadcast_state(&mut self): the world it leaves, the string it hands to
\* broadcaster.send and what it returns, ok being the send's outcome
broadcast_state_call(w, order, ok) ==
    [w |-> w, json |-> to_string(w, order), res |-> IF ok THEN "Ok" ELSE "Err"]

\* A call of another public method: the table of the players map may be
\* laid out anew when a key is inserted or removed, and the strings
\* serialised since the last such call start over
WireCall(r, update, id, order) ==
    /\ SetWorld(r.w)
    /\ pre' = TheWorld
    /\ last' = Call(update, id, r.res)
    /\ wire' = [order |-> IF DOMAIN r.w.players = DOMAIN players
                          THEN wire.order ELSE order,
                sent |-> <<>>]
    /\ UNCHANGED <<feature, hist, sysVars, idgen, diag, config, ping>>

WirePlayerUpdate(id, update) ==
    /\ last.res # "Panic"
    /\ update.type = "ProjectileCreated" =>
        /\ ncalls < MaxWireCalls
        /\ Len(projectiles) < MaxProjectiles
    /\ LET r == handle_player_update(TheWorld, feature, id, update)
       IN  \E order \in IF DOMAIN r.w.players = DOMAIN players
                        THEN {wire.order} ELSE Orders :
                WireCall(r, update, id, order)
    /\ ncalls' = IF update.type = "ProjectileCreated" THEN ncalls + 1 ELSE ncalls
    /\ UNCHANGED clock

WireProgressProjectiles(c) ==
    /\ last.res # "Panic"
    /\ ncalls < MaxWireCalls
    /\ WireCall(progress_projectiles(TheWorld, unix_time_ms(c), TRUE),
                [type |-> "progress_projectiles"], 0, wire.order)
    /\ clock' = c
    /\ ncalls' = ncalls + 1

\* broadcast_state called by the driver
ApiBroadcastState(ok) ==
    /\ last.res # "Panic"
    /\ Len(wire.sent) < MaxBroadcasts
    /\ LET r == broadcast_state_call(TheWorld, wire.order, ok)
       IN  /\ SetWorld(r.w)
           /\ pre' = TheWorld
           /\ last' = Call([type |-> "broadcast_state"], 0, r.res)
           /\ wire' = [wire EXCEPT !.sent = Append(@, r.json)]
    /\ UNCHANGED <<feature, clock, ncalls, hist, sysVars, idgen, diag, config, ping>>

InitSnapshots ==
    /\ players = EmptyMap
    /\ enemies = SpawnEnemies(<<1, 10>>)
    /\ projectiles = <<>>
    /\ feature \in BOOLEAN
    /\ clock = 0
    /\ ncalls = 0
    /\ pre = World(players, enemies, projectiles)
    /\ last = NoCall
    /\ hist = <<>>
    /\ InitSys
    /\ idgen = NewIdGenerator("Player", 0, FALSE)
    /\ diag = NoDiag
    /\ config = [NewConfig(NoEnv) EXCEPT !.pc = "done"]
    /\ wire \in { [order |-> o, sent |-> <<>>] : o \in Orders }
    /\ ping = NoPing

\* A position far outside any map, stamped with the time 0
WirePositionUpdates ==
    { [type |-> "PositionUpdate", position |-> PositionStamped(Vec2(-500, 500), 0)] }

NextSnapshots ==
    \/ \E id \in Ids, update \in PlayerUpdates \cup SysUpdates \cup WirePositionUpdates :
            WirePlayerUpdate(id, update)
    \/ \E c \in clock..MaxClock : WireProgressProjectiles(c)
    \/ \E ok \in BOOLEAN : ApiBroadcastState(ok)
SpecSnapshots == InitSnapshots /\ [][NextSnapshots]_vars

\* C26: a call of broadcast_state leaves the world as it was, and the
\* strings serialised by consecutive calls of it, no other method being
\* called in between, are the same string.
C26_BroadcastIsReadOnly ==
    /\ last.update.type = "broadcast_state" =>
        World(players, enemies, projectiles) = pre
    /\ \A i, j \in 1..Len(wire.sent) : wire.sent[i] = wire.sent[j]

\* Two consecutive broadcasts of a world of two players, an enemy and a
\* projectile in flight
C26_Witness ==
    /\ last.update.type = "broadcast_state"
    /\ Len(wire.sent) = 2
    /\ Cardinality(DOMAIN players) = 2
    /\ projectiles # <<>>
    /\ enemies # <<>>
    /\ Len(wire.sent[2].players) = 2

\* C27: after a PositionUpdate for a player that was in the map, the call
\* has returned Ok, that player's position is the payload, whatever it is,
\* its connection status is as before, and every other player, the enemies
\* and the projectiles are as before.
C27_PositionUpdateStoresPayload ==
    (last.update.type = "PositionUpdate" /\ last.id \in DOMAIN pre.players) =>
        /\ last.res = "Ok"
        /\ players = [pre.players EXCEPT ![last.id].position = last.update.position]
        /\ enemies = pre.enemies
        /\ projectiles = pre.projectiles

\* A player that had moved is sent far off the map with a timestamp older
\* than the stored one, another player, a hit enemy and a projectile being
\* in the world
C27_Witness ==
    /\ last.update \in WirePositionUpdates
    /\ last.id \in DOMAIN pre.players
    /\ pre.players[last.id].position.time_ms > last.update.position.time_ms
    /\ players[last.id].position = last.update.position
    /\ Cardinality(DOMAIN players) = 2
    /\ projectiles # <<>>
    /\ \E i \in 1..Len(enemies) : enemies[i].status = "Dead"

\* C28: after a Connect for an id that was not in the map, the call has
\* returned Ok, the map is the map before it with one entry more, a
\* Connected player at the origin under that id, and the enemies and the
\* projectiles are as before.
C28_ConnectAddsOnePlayer ==
    (last.update.type = "PlayerConnected" /\ last.id \notin DOMAIN pre.players) =>
        /\ last.res = "Ok"
        /\ players = MapInsert(pre.players, last.id,
                               Player(PositionStamped(Vec2(0, 0), 0), "Connected"))
        /\ enemies = pre.enemies
        /\ projectiles = pre.projectiles

\* A second player connects to a world whose first player has moved and
\* fired
C28_Witness ==
    /\ last.update.type = "PlayerConnected"
    /\ last.id \notin DOMAIN pre.players
    /\ Cardinality(DOMAIN players) = 2
    /\ \E q \in DOMAIN pre.players : pre.players[q].position.xy # Vec2(0, 0)
    /\ players[last.id] = Player(PositionStamped(Vec2(0, 0), 0), "Connected")
    /\ projectiles # <<>>
    /\ enemies # <<>>

\* ================================== loop_until_cancelled: order of a tick
\* The moves of the controller from one place of the loop to another
LoopOrder ==
    { <<"loop", "progress">>, <<"loop", "broadcast">>, <<"loop", "stopped">>,
      <<"progress", "broadcast">>, <<"progress", "panicked">>,
      <<"broadcast", "recv">>, <<"broadcast", "failed">>,
      <<"recv", "loop">>, <<"recv", "hitscan">>, <<"recv", "failed">>,
      <<"recv", "panicked">>, <<"hitscan", "loop">> }

\* C29: the controller moves through an iteration in the order advance,
\* broadcast, receive, apply; whenever a broadcast is emitted exactly one
\* call of progress_projectiles has completed and at most one intent has
\* been applied since the broadcast before it (since the start, for the
\* first); never more than one of either is completed without a broadcast;
\* and a timeout applies no intent, leaves the world alone and puts the
\* controller at the loop's head, from where it only advances and
\* broadcasts (or leaves, when cancelled).
C29_OneAdvanceOneIntentPerBroadcast ==
    /\ [](since_bcast.advances <= 1 /\ since_bcast.intents <= 1)
    /\ [](pc = "broadcast" => since_bcast.advances = 1)
    /\ [][ /\ pc' # pc => <<pc, pc'>> \in LoopOrder
           /\ (pc = "broadcast" /\ pc' = "recv") =>
                /\ since_bcast.advances = 1
                /\ since_bcast' = NothingSince
           /\ (pc = "recv" /\ pc' # pc /\ queue' = queue) =>
                /\ pc' = "loop"
                /\ applied' = applied
                /\ UNCHANGED <<players, enemies, projectiles, bcast>> ]_vars

\* A broadcast is about to be emitted, one intent having been applied and
\* the projectiles advanced since the broadcast before it
C29_Witness ==
    /\ pc = "broadcast"
    /\ IsSome(bcast)
    /\ since_bcast = [advances |-> 1, intents |-> 1]
    /\ projectiles # <<>>
    /\ Len(applied) >= 2

\* C30: the controller leaves the loop on the flag from the loop's head
\* alone, with no call of progress_projectiles or handle_player_update under
\* way and every dequeued intent applied; setting the flag moves the
\* controller nowhere and touches neither the world nor a call under way;
\* and with the flag set the controller goes on through the iteration in the
\* same order as without.
C30_FlagReadAtLoopHeadOnly ==
    [][ /\ (pc' = "stopped" /\ pc # "stopped") =>
            /\ pc = "loop"
            /\ cancel_flag
            /\ tick = NoTick
            /\ scan = NoScan
            /\ World(players, enemies, projectiles) = committed
            /\ UNCHANGED <<players, enemies, projectiles, applied, queue, bcast>>
        /\ cancel_flag' # cancel_flag =>
            UNCHANGED <<pc, tick, scan, players, enemies, projectiles, applied,
                        queue, bcast, committed>>
        /\ (cancel_flag /\ pc' # pc /\ pc # "loop") =>
            /\ <<pc, pc'>> \in LoopOrder
            /\ pc' # "stopped" ]_vars

\* The flag was set while an iteration was under way, and the hitscan
\* intent of that iteration has been applied in full before the loop's test
C30_Witness ==
    /\ pc = "loop"
    /\ cancel_flag
    /\ Len(applied) = unwrap(cancelled_at) + 1
    /\ since_bcast.intents = 1
    /\ IsHitscan(last.update)
    /\ \E i \in 1..Len(enemies) : enemies[i].status = "Dead"

\* ============================ progress_projectiles: the elapsed time
\* C31: in every tick, for every projectile in flight, now minus the stored
\* timestamp does not underflow: the tick did not panic, and no stored
\* timestamp was later than the tick's now.
C31_ElapsedTimeNeverUnderflows ==
    LastIsTick =>
        /\ last.res # "Panic"
        /\ \A k \in 1..Len(pre.projectiles) :
            ~u64_sub_underflows(unix_time_ms(clock),
                                pre.projectiles[k].projectile.origin.time_ms)

\* ============================================ the ray test and its reach
\* The ray test applied to attacks from around the enemies: origins on the
\* box, beside it, behind it and beyond the map's reach; velocities along
\* the axes and the diagonals, of several lengths.
RayOrigins ==
    { Vec2(x, y) : x \in {-3, 0, 2}, y \in {-2, 0, 1} }
        \cup { Vec2(-(MapMaxDimension + 2), 0) }
RayDirs ==
    ({ Vec2(x, y) : x \in {-1, 0, 1}, y \in {-1, 0, 1} } \ { Vec2(0, 0) })
        \cup { Vec2(3, 0), Vec2(-2, -2) }
RayEnemyPositions == { Vec2(0, 0), Vec2(4, 0), Vec2(-1, 2) }
RayProjectiles ==
    { ProjectileSnaphot(Projectile0, PositionStamped(o, 0), d) :
        o \in RayOrigins, d \in RayDirs }

\* projectile_ray_scans_enemy(&projectile, &enemy) on enemy k of the world
RayScan(proj, k) ==
    /\ last.res # "Panic"
    /\ k \in 1..Len(enemies)
    /\ pre' = TheWorld
    /\ last' = [update |-> [type |-> "ray_scan", projectile |-> proj], id |-> k,
                res |-> "Ok", hit |-> projectile_ray_scans_enemy(proj, enemies[k])]
    /\ UNCHANGED <<players, enemies, projectiles, feature, clock, ncalls, hist,
                   sysVars, sideVars>>

\* main.rs's bullet_ray_scans_enemy(&bullet, enemy, max_time_of_impact)
BulletScan(bullet, k) ==
    /\ last.res # "Panic"
    /\ k \in 1..Len(enemies)
    /\ pre' = TheWorld
    /\ last' = [update |-> [type |-> "bullet_scan", projectile |-> bullet], id |-> k,
                res |-> "Ok",
                hit |-> bullet_ray_scans_enemy(bullet, enemies[k], MapMaxDimension)]
    /\ UNCHANGED <<players, enemies, projectiles, feature, clock, ncalls, hist,
                   sysVars, sideVars>>

InitRay ==
    /\ players = EmptyMap
    /\ enemies \in { <<Enemy(1, c, 10, "Alive")>> : c \in RayEnemyPositions }
                   \cup { <<Enemy(1, Vec2(0, 0), 10, "Alive"), Enemy(2, Vec2(4, 0), 1, "Alive")>> }
    /\ projectiles = <<>>
    /\ feature = FALSE
    /\ clock = 0
    /\ ncalls = 0
    /\ pre = World(players, enemies, projectiles)
    /\ last = NoCall
    /\ hist = <<>>
    /\ InitSys
    /\ InitSide

NextRay ==
    \/ \E proj \in RayProjectiles, k \in 1..MaxEnemies : RayScan(proj, k)
    \/ \E bullet \in RayProjectiles, k \in 1..MaxEnemies : BulletScan(bullet, k)
    \/ \E o \in RayOrigins, d \in RayDirs :
            /\ ncalls < MaxRayAttacks
            /\ ApiProjectileCreated(1, [type |-> "ProjectileCreated",
                    projectile |-> ProjectileSnaphot(HitScan0, PositionStamped(o, 0), d)])

SpecRay == InitRay /\ [][NextRay]_vars

\* The half-line from o in direction d meets the closed box around c at a
\* point no farther than reach from o (stated independently of the slab test)
RayReachesWithin(o, d, c, reach) ==
    \E t \in 0..reach :
        /\ Abs(o[1] + t * d[1] - c[1]) <= HalfExtent
        /\ Abs(o[2] + t * d[2] - c[2]) <= HalfExtent
        /\ t * t * (d[1] * d[1] + d[2] * d[2]) <= reach * reach

\* C32: after a hitscan attack, every enemy that lost health is one whose box
\* the attack's ray reaches within the map's maximum dimension from the origin.
C32_HitscanReachIsBounded ==
    LastIsHitscan =>
        \A i \in 1..Len(enemies) :
            enemies[i].health # pre.enemies[i].health
            => RayReachesWithin(last.update.projectile.origin.xy,
                                normalize(last.update.projectile.vel),
                                enemies[i].position.xy, MapMaxDimension)

\* The half-line from o in direction d meets the closed box of half extent
\* HalfExtent centred on c, however far away
HalfLineMeetsBox(o, d, c) ==
    \E t \in 0..(2 * MapMaxDimension) :
        /\ Abs(o[1] + t * d[1] - c[1]) <= HalfExtent
        /\ Abs(o[2] + t * d[2] - c[2]) <= HalfExtent

LastIsRayScan == last.update.type = "ray_scan"

LastDisconnectedConnected ==
    /\ last.update.type = "PlayerDisconnected"
    /\ last.id \in DOMAIN pre.players
    /\ pre.players[last.id].connection_status = "Connected"

\* C34: after a Disconnect for a player p that was Connected, the call
\* returned Ok, the world holds no Connected record for p (p is absent in the
\* default build, present and Disconnected in the address-id build), and
\* every other player's record, the enemies and the projectiles are as before.
C34_DisconnectedPlayerNotConnected ==
    LastDisconnectedConnected =>
        /\ last.res = "Ok"
        /\ IF feature
           THEN /\ last.id \in DOMAIN players
                /\ players[last.id] =
                      [pre.players[last.id] EXCEPT !.connection_status = "Disconnected"]
           ELSE last.id \notin DOMAIN players
        /\ DOMAIN players \ {last.id} = DOMAIN pre.players \ {last.id}
        /\ \A q \in DOMAIN players \ {last.id} : players[q] = pre.players[q]
        /\ enemies = pre.enemies
        /\ projectiles = pre.projectiles

C34_Witness ==
    /\ LastDisconnectedConnected
    /\ ~feature
    /\ last.id \notin DOMAIN players
    /\ \E q \in DOMAIN players : players[q].connection_status = "Connected"

\* ============================================ the penetration budget's sign
\* C36: every projectile in flight whose budget is set has a budget >= 0; a
\* tick lowers a projectile's budget by at most what it had and by at most one
\* per enemy on its ray, a budget of 0 is not lowered, the budgets spent in a
\* tick account for exactly the health the enemies lost, and a call other
\* than a tick leaves the budgets of the projectiles in flight as they were.
C36_BudgetNeverNegative ==
    /\ \A k \in 1..Len(projectiles) :
            IsSome(Budget(projectiles[k])) => unwrap(Budget(projectiles[k])) >= 0
    /\ (LastIsTick /\ last.res = "Ok") =>
        /\ \A k \in 1..Len(pre.projectiles) :
            IsSome(Budget(pre.projectiles[k])) =>
                /\ Spent(k) \in 0..unwrap(Budget(pre.projectiles[k]))
                /\ Spent(k) <= Cardinality(OnRay(pre.projectiles[k], pre.enemies))
        /\ DamageSpent = HealthLost
    /\ ~LastIsTick =>
        \A k \in 1..Len(pre.projectiles) :
            Budget(projectiles[k]) = Budget(pre.projectiles[k])

\* A projectile of budget 1 with two enemies on its ray damaged one of them
\* and stopped at budget 0
C36_Witness ==
    /\ LastIsTick /\ last.res = "Ok"
    /\ \E k \in 1..Len(pre.projectiles) :
        /\ Budget(pre.projectiles[k]) = Some(1)
        /\ Budget(projectiles[k]) = Some(0)
        /\ Cardinality(OnRay(pre.projectiles[k], pre.enemies)) = 2
        /\ \E i \in OnRay(pre.projectiles[k], pre.enemies) :
                enemies[i].health = pre.enemies[i].health

\* ==================================================== the PING timeouts
PingFrame ==
    UNCHANGED <<players, enemies, projectiles, feature, clock, last, apiVars, sysVars,
                idgen, diag, config, wire>>

\* The handshake of connection c completes and the event loop calls on_open
ping_on_open(c, ok) ==
    /\ ping[c].st = "new"
    /\ ping' = [ping EXCEPT ![c] = open_ping(@, ok)]
    /\ PingFrame

\* The event loop takes a timeout request of connection c from its queue,
\* sets the timeout and hands it to the handler's on_new_timeout
ping_schedule(c) ==
    /\ ping[c].requested > 0
    /\ ping[c].made < MaxTimers
    /\ LET t == ping[c].made + 1
       IN  ping' = [ping EXCEPT ![c] =
                on_new_timeout([@ EXCEPT !.requested = @ - 1, !.made = t,
                                         !.pending = @ \cup {t}], t)]
    /\ PingFrame

\* A pending timeout of connection c expires: the event loop calls on_timeout
ping_fire(c, t, ok) ==
    /\ t \in ping[c].pending
    /\ ping' = [ping EXCEPT ![c] = on_timeout([@ EXCEPT !.pending = @ \ {t}], ok)]
    /\ PingFrame

\* The connection closes (also after a handler returned an error)
ping_on_close(c) ==
    /\ ping[c].st \in {"open", "failed"}
    /\ ping' = [ping EXCEPT ![c] = close_ping(@)]
    /\ PingFrame

InitPing == Init /\ ~feature /\ enemies = <<>>

NextPing ==
    \/ \E c \in Conns, ok \in BOOLEAN : ping_on_open(c, ok)
    \/ \E c \in Conns : ping_schedule(c)
    \/ \E c \in Conns, t \in 1..MaxTimers, ok \in BOOLEAN : ping_fire(c, t, ok)
    \/ \E c \in Conns : ping_on_close(c)

SpecPing == InitPing /\ [][NextPing]_vars

\* C37: every connection has at most one PING timeout requested or pending;
\* after on_new_timeout the handler stores the new timeout, and a timeout it
\* had stored has been cancelled; after on_close the handler stores none, and
\* the one it had stored has been cancelled and is no longer pending.
C37_OnePendingPingTimeout ==
    \A c \in Conns :
        LET p == ping[c]
        IN  /\ Cardinality(p.pending) + p.requested <= 1
            /\ p.pending \cap p.cancelled = {}
            /\ p.op = "on_new_timeout" =>
                /\ p.ping_timeout = Some(p.made)
                /\ IsSome(p.stored_before) => unwrap(p.stored_before) \in p.cancelled
            /\ p.op = "on_close" =>
                /\ p.ping_timeout = None
                /\ IsSome(p.stored_before) => unwrap(p.stored_before) \in p.cancelled

\* A connection closed while its second timeout was pending
C37_Witness ==
    \E c \in Conns :
        /\ ping[c].op = "on_close"
        /\ ping[c].stored_before = Some(2)
        /\ ping[c].pending = {}
        /\ ping[c].cancelled = {2}

\* ====================================== on_open returning early with Err
\* GameServer::on_open when send_ping() or out.timeout(..) fails: the id has
\* been drawn and stored in player_id, and the `?` returns before the Connect
\* is sent on the channel.
on_open_fails(c) ==
    /\ senders.alive
    /\ ~server_down
    /\ conns[c].st = "new"
    /\ LET id == IF feature THEN remote_addr(c) ELSE next_id
       IN  conns' = [conns EXCEPT ![c].st = "failed", ![c].player_id = Some(id)]
    /\ next_id' = IF feature THEN next_id ELSE next_id + 1
    /\ UNCHANGED <<players, enemies, projectiles, feature, clock, last, apiVars,
                   pc, tick, scan, cancel_flag, queue, server_down, enqueued, applied,
                   bcast, committed, senders, cancelled_at, since_bcast, sideVars>>

\* GameServer::on_close for a connection whose on_open returned Err: whether
\* the event loop calls it is the ws library's choice; when it does, the
\* handler sends the Disconnect as for any other connection
on_close_after_error(c) ==
    /\ senders.alive
    /\ ~server_down
    /\ conns[c].st = "failed"
    /\ SendIntent(c, unwrap(conns[c].player_id), [type |-> "PlayerDisconnected"])
    /\ conns' = IF rx_alive
                THEN [conns EXCEPT ![c].st = "closed", ![c].n = @ + 1]
                ELSE conns
    /\ UNCHANGED <<players, enemies, projectiles, feature, clock, last, apiVars,
                   pc, tick, scan, cancel_flag, next_id, applied, bcast, committed,
                   senders, cancelled_at, since_bcast, sideVars>>

NextOpen ==
    \/ Controller
    \/ Handlers
    \/ \E c \in Conns : on_open_fails(c)
    \/ \E c \in Conns : on_close_after_error(c)

SpecOpen == Init /\ [][NextOpen]_vars

\* C35: the first intent a connection puts on the channel, and no other, is
\* its Connect; its Disconnect is the last one (the connection is closed by
\* it and sends nothing once closed); and with serial ids every intent other
\* than a Connect that the controller takes from the channel names a player
\* that is in the map.
C35_IntentsNamePresentPlayers ==
    [][ /\ enqueued' # enqueued =>
            LET m == queue'[Len(queue')]
                c == m.tag[1]
            IN  /\ (m.tag[2] = 1) <=> (m.update.type = "PlayerConnected")
                /\ conns[c].st # "closed"
                /\ (m.update.type = "PlayerDisconnected") <=> (conns'[c].st = "closed")
        /\ ( /\ ~feature
             /\ pc = "recv" /\ queue # <<>> /\ queue' = dequeue(queue)
             /\ front(queue).update.type # "PlayerConnected" )
            => front(queue).id \in DOMAIN players
      ]_vars

====
